---------------------------- MODULE Spec2Model ----------------------------
(***************************************************************************)
(* Difficulty-scoring and coverage-analysis engine of the character        *)
(* frequency tool (src/字频统计.py).                                        *)
(*                                                                         *)
(* Characters are the integers 1, 2, 3.  A document's Counter is the       *)
(* sequence of its (character, count) pairs in insertion order, which is   *)
(* the iteration order of char_counter.items().  Python floats are exact   *)
(* rationals <<numerator, denominator>> in lowest terms; None is the pair  *)
(* <<0, 0>>.  The acceleration exponents range over positive integers, for *)
(* which x ** e is rational.  The thresholds 10..5000 of stats_ranges, the *)
(* 3500 of the common-character table and the 500/1000/1500 read by the    *)
(* rating are scaled to the size of the alphabet.                          *)
(*                                                                         *)
(* The database upload (src/db_uploader.py) and the result folder are      *)
(* modelled over file names that are sequences of symbols: digits and      *)
(* punctuation of a numbering prefix, Chinese and Latin characters, and    *)
(* the extension.                                                          *)
(***************************************************************************)
EXTENDS Integers, Sequences, FiniteSets, TLC

VARIABLES
    reference_file,          \* characters of 前1500.txt, in order (<<>>: unreadable)
    dict_file,               \* dict_simple.txt as {char: line number}
    pc,                      \* position in feature_book_statistics
    cfg,                     \* the module-level scoring configuration
    shared_reference_chars,  \* head list (<<>> when 前1500.txt is unavailable)
    shared_char_order,       \* rank mapping {char: order}
    shared_common_chars,     \* common-character set
    shared_reference_sets,   \* {top_n: frozenset}
    char_counter,            \* Counter of the document being processed
    result,                  \* what process_file computed for it
    rating,                  \* a direct call of calculate_difficulty_rating
    display,                 \* a direct call of difficulty_score_to_star_display
    db,                      \* the MySQL server: table rows, connections, statements
    batch,                   \* locals of the 'all' branch of feature_book_statistics
    upload,                  \* a call of handle_database_upload
    output_folder,           \* file names in OUTPUT_FOLDER
    scan                     \* the books directory and the files chosen from it

vars == <<reference_file, dict_file, pc, cfg, shared_reference_chars, shared_char_order,
          shared_common_chars, shared_reference_sets, char_counter, result, rating,
          display, db, batch, upload, output_folder, scan>>

\* the state of the analysis and the state of the upload and of the folders
analysis_vars == <<reference_file, dict_file, cfg, shared_reference_chars, shared_char_order,
                   shared_common_chars, shared_reference_sets, char_counter, result,
                   rating, display>>
upload_vars == <<db, batch, upload, output_folder, scan>>

\* no database configured and nothing in the folders
NoUpload ==
    /\ db = <<>>
    /\ batch = <<>>
    /\ upload = <<>>
    /\ output_folder = {}
    /\ scan = <<>>

---------------------------------------------------------------------------
(* Bounds of the model *)

MaxHead == 2
MaxOrder == 3
ScoreMargin == 20
MaxTopN == 4
TopCommon == 3
Top500 == 1
Top1000 == 2
Top1500 == 3

Chars == {1, 2, 3}
CountValues == {1, 100}

---------------------------------------------------------------------------
(* Exact arithmetic for Python's float expressions *)

Abs(x) == IF x < 0 THEN -x ELSE x

RECURSIVE GCD(_, _)
GCD(a, b) == IF b = 0 THEN a ELSE GCD(b, a % b)

Rat(n, d) ==
    IF n = 0 THEN <<0, 1>>
    ELSE LET s == IF d < 0 THEN -1 ELSE 1
             g == GCD(Abs(n), Abs(d))
         IN  <<(s * n) \div g, (s * d) \div g>>

R(n) == <<n, 1>>
None == <<0, 0>>

\* the value of an expression whose evaluation raised ZeroDivisionError; every
\* operation on it yields it again, as the exception leaves the expression
ZeroDivisionError == <<0, -1>>

LCM(a, b) == (a \div GCD(a, b)) * b

RAdd(a, b) ==
    IF a = ZeroDivisionError \/ b = ZeroDivisionError THEN ZeroDivisionError
    ELSE LET d == LCM(a[2], b[2])
         IN  Rat(a[1] * (d \div a[2]) + b[1] * (d \div b[2]), d)
RSub(a, b) == RAdd(a, <<-b[1], b[2]>>)
RMul(a, b) ==
    IF a = ZeroDivisionError \/ b = ZeroDivisionError THEN ZeroDivisionError
    ELSE IF a[1] = 0 \/ b[1] = 0 THEN <<0, 1>>
    ELSE LET g1 == GCD(Abs(a[1]), b[2])
             g2 == GCD(Abs(b[1]), a[2])
         IN  <<(a[1] \div g1) * (b[1] \div g2), (a[2] \div g2) * (b[2] \div g1)>>
RDiv(a, b) ==
    IF b[1] = 0 THEN ZeroDivisionError
    ELSE RMul(a, IF b[1] < 0 THEN <<-b[2], -b[1]>> ELSE <<b[2], b[1]>>)
RLe(a, b) == RSub(a, b)[1] <= 0
RLt(a, b) == RSub(a, b)[1] < 0
RGe(a, b) == RLe(b, a)

RECURSIVE RPow(_, _)
RPow(a, e) == IF e = 0 THEN R(1) ELSE RMul(a, RPow(a, e - 1))

RECURSIVE SumSeq(_)
SumSeq(s) == IF s = <<>> THEN 0 ELSE Head(s) + SumSeq(Tail(s))

RECURSIVE RSumSeq(_)
RSumSeq(s) == IF s = <<>> THEN R(0) ELSE RAdd(Head(s), RSumSeq(Tail(s)))

Range(s) == {s[i] : i \in 1..Len(s)}

---------------------------------------------------------------------------
(* dict views of a Counter *)

Keys(counter) == {counter[i][1] : i \in 1..Len(counter)}

\* char_counter.get(char, 0)
Get(counter, char) ==
    IF char \in Keys(counter)
    THEN LET i == CHOOSE j \in 1..Len(counter) : counter[j][1] = char
         IN  counter[i][2]
    ELSE 0

\* sum(char_counter.values())
Total(counter) == SumSeq([i \in 1..Len(counter) |-> counter[i][2]])

---------------------------------------------------------------------------
(* Reference tables *)

\* sorted(char_order.items(), key=lambda x: x[1]) : the characters by rank
RECURSIVE SortedByOrder(_)
SortedByOrder(char_order) ==
    IF DOMAIN char_order = {} THEN <<>>
    ELSE LET c == CHOOSE x \in DOMAIN char_order :
                      \A y \in DOMAIN char_order : char_order[x] <= char_order[y]
             rest == [y \in DOMAIN char_order \ {c} |-> char_order[y]]
         IN  <<c>> \o SortedByOrder(rest)

RECURSIVE FillFromOrder_OffByOne(_, _, _)
\* FillFromOrder breaking on "added_count > remaining_needed"
FillFromOrder_OffByOne(sorted, exclude, needed) ==
    IF sorted = <<>> THEN {}
    ELSE IF Head(sorted) \in exclude
         THEN FillFromOrder_OffByOne(Tail(sorted), exclude, needed)
         ELSE IF 1 > needed
              THEN {Head(sorted)}
              ELSE {Head(sorted)} \cup
                   FillFromOrder_OffByOne(Tail(sorted), exclude, needed - 1)

\* the loop "for char, order in sorted_char_order: if char not in
\* reference_chars_set: add; added_count += 1; if added_count >= needed: break"
RECURSIVE FillFromOrder(_, _, _)
FillFromOrder(sorted, exclude, needed) ==
    IF sorted = <<>> THEN {}
    ELSE IF Head(sorted) \in exclude
         THEN FillFromOrder(Tail(sorted), exclude, needed)
         ELSE IF 1 >= needed
              THEN {Head(sorted)}
              ELSE {Head(sorted)} \cup FillFromOrder(Tail(sorted), exclude, needed - 1)

\* HeadBranchSet without "ref_top_chars = set(reference_chars)" in the else branch
HeadBranchSet_NoCopy(reference_chars, sorted_char_order, top_n) ==
    IF top_n <= Len(reference_chars)
    THEN Range(SubSeq(reference_chars, 1, top_n))
    ELSE FillFromOrder(sorted_char_order, Range(reference_chars),
                       top_n - Len(reference_chars))

\* HeadBranchSet taking the prefix only when top_n < len(reference_chars)
HeadBranchSet_StrictPrefix(reference_chars, sorted_char_order, top_n) ==
    IF top_n < Len(reference_chars)
    THEN Range(SubSeq(reference_chars, 1, top_n))
    ELSE Range(reference_chars) \cup
         FillFromOrder(sorted_char_order, Range(reference_chars),
                       top_n - Len(reference_chars))

\* the set built for one threshold when the head list is present
HeadBranchSet(reference_chars, sorted_char_order, top_n) ==
    IF top_n <= Len(reference_chars)
    THEN Range(SubSeq(reference_chars, 1, top_n))
    ELSE Range(reference_chars) \cup
         FillFromOrder(sorted_char_order, Range(reference_chars),
                       top_n - Len(reference_chars))

\* FallbackSet comparing the rank with == instead of <=
FallbackSet_ExactRank(char_order, top_n) ==
    {c \in DOMAIN char_order : char_order[c] = top_n}

\* the set built for one threshold in the fallback
FallbackSet(char_order, top_n) ==
    {c \in DOMAIN char_order : char_order[c] <= top_n}

precompute_reference_sets(reference_chars, char_order, stats_ranges) ==
    IF Len(reference_chars) = 0
    THEN [top_n \in stats_ranges |-> FallbackSet(char_order, top_n)]
    ELSE LET sorted_char_order == SortedByOrder(char_order)
         IN  [top_n \in stats_ranges |->
                 HeadBranchSet(reference_chars, sorted_char_order, top_n)]

load_common_chars(reference_chars, char_order) ==
    IF Len(reference_chars) > 0
    THEN LET remaining_needed == TopCommon - Len(reference_chars)
         IN  IF DOMAIN char_order # {} /\ remaining_needed > 0
             THEN Range(reference_chars) \cup
                  FillFromOrder(SortedByOrder(char_order), Range(reference_chars),
                                remaining_needed)
             ELSE Range(reference_chars)
    ELSE {c \in DOMAIN char_order : char_order[c] <= TopCommon}

stats_ranges == 1..MaxTopN

---------------------------------------------------------------------------
(* calculate_coverage_stats_optimized *)

\* SumOverSet with char_counter[char] summed over the whole document
SumOverSet_WholeDocument(counter, chars) == Total(counter)

RECURSIVE SumOverSet(_, _)
\* sum(char_counter.get(char, 0) for char in ref_top_chars)
SumOverSet(counter, chars) ==
    IF chars = {} THEN 0
    ELSE LET c == CHOOSE x \in chars : TRUE
         IN  Get(counter, c) + SumOverSet(counter, chars \ {c})

\* calculate_coverage_stats_optimized averaging over top_n, not len(ref_top_chars)
calculate_coverage_stats_optimized_DivN(top_n, reference_sets_cache, counter, total_chars) ==
    LET ref_top_chars == IF top_n \in DOMAIN reference_sets_cache
                         THEN reference_sets_cache[top_n] ELSE {}
        top_count == SumOverSet(counter, ref_top_chars)
    IN  [actual_n |-> Cardinality(ref_top_chars),
         coverage |-> IF total_chars > 0
                      THEN RMul(Rat(top_count, total_chars), R(100)) ELSE R(0),
         avg_count |-> IF Cardinality(ref_top_chars) > 0
                       THEN Rat(top_count, top_n) ELSE R(0),
         total_count |-> top_count]

calculate_coverage_stats_optimized(top_n, reference_sets_cache, counter, total_chars) ==
    LET ref_top_chars == IF top_n \in DOMAIN reference_sets_cache
                         THEN reference_sets_cache[top_n] ELSE {}
        top_count == SumOverSet(counter, ref_top_chars)
        coverage == IF total_chars > 0
                    THEN RMul(Rat(top_count, total_chars), R(100)) ELSE R(0)
        avg_count == IF Cardinality(ref_top_chars) > 0
                     THEN Rat(top_count, Cardinality(ref_top_chars)) ELSE R(0)
    IN  [actual_n |-> Cardinality(ref_top_chars),
         coverage |-> coverage,
         avg_count |-> avg_count,
         total_count |-> top_count]

---------------------------------------------------------------------------
(* sorted(..., key=lambda x: x[1], reverse=True): stable, descending count *)

RECURSIVE InsertDesc_Ascending(_, _)
\* InsertDesc for a sort that lost reverse=True
InsertDesc_Ascending(sorted, p) ==
    IF sorted = <<>> THEN <<p>>
    ELSE IF Head(sorted)[2] <= p[2]
         THEN <<Head(sorted)>> \o InsertDesc_Ascending(Tail(sorted), p)
         ELSE <<p>> \o sorted

RECURSIVE InsertDesc(_, _)
\* insert pair p behind every pair whose count is >= its own
InsertDesc(sorted, p) ==
    IF sorted = <<>> THEN <<p>>
    ELSE IF Head(sorted)[2] >= p[2]
         THEN <<Head(sorted)>> \o InsertDesc(Tail(sorted), p)
         ELSE <<p>> \o sorted

\* SortByCountDesc leaving the pairs as the Counter yields them
SortByCountDesc_Unsorted(items) == items

RECURSIVE SortByCountDesc(_)
SortByCountDesc(items) ==
    IF items = <<>> THEN <<>>
    ELSE InsertDesc(SortByCountDesc(SubSeq(items, 1, Len(items) - 1)),
                    items[Len(items)])

---------------------------------------------------------------------------
(* The cumulative coverage walk of process_file *)

\* the thresholds visited from the largest down
Milestones_Descending == <<99, 95, 90, 80, 50>>

Milestones == <<50, 80, 90, 95, 99>>

RECURSIVE MarkThresholds(_, _, _, _)
\* the inner "for threshold in [50, 80, 90, 95, 99]" of one iteration:
\* st = [found |-> set of thresholds already marked, points |-> list so far]
MarkThresholds(i, st, idx, coverage_pct) ==
    IF i > Len(Milestones) THEN st
    ELSE LET threshold == Milestones[i]
             st2 == IF threshold \notin st.found /\ RGe(coverage_pct, R(threshold))
                    THEN [found |-> st.found \cup {threshold},
                          points |-> Append(st.points, <<threshold, idx, coverage_pct>>)]
                    ELSE st
         IN  MarkThresholds(i + 1, st2, idx, coverage_pct)

RECURSIVE WalkFrom_AnyBreak(_, _, _, _, _)
\* WalkFrom leaving the loop on any(thresholds.values())
WalkFrom_AnyBreak(all_chars_by_freq, idx, cumulative_count, st, total_chars) ==
    IF idx > Len(all_chars_by_freq) THEN st.points
    ELSE LET cum == cumulative_count + all_chars_by_freq[idx][2]
             coverage_pct == RMul(Rat(cum, total_chars), R(100))
             st2 == MarkThresholds(1, st, idx, coverage_pct)
         IN  IF st2.found # {}
             THEN st2.points
             ELSE WalkFrom_AnyBreak(all_chars_by_freq, idx + 1, cum, st2, total_chars)

RECURSIVE WalkFrom(_, _, _, _, _)
\* the "for idx, (char, count) in enumerate(all_chars_by_freq, start=1)" loop
WalkFrom(all_chars_by_freq, idx, cumulative_count, st, total_chars) ==
    IF idx > Len(all_chars_by_freq) THEN st.points
    ELSE LET cum == cumulative_count + all_chars_by_freq[idx][2]
             coverage_pct == RMul(Rat(cum, total_chars), R(100))
             st2 == MarkThresholds(1, st, idx, coverage_pct)
         IN  IF st2.found = Range(Milestones)
             THEN st2.points
             ELSE WalkFrom(all_chars_by_freq, idx + 1, cum, st2, total_chars)

CumulativeCoverage(counter, all_chars_by_freq, total_chars) ==
    Append(WalkFrom(all_chars_by_freq, 1, 0, [found |-> {}, points |-> <<>>],
                    total_chars),
           <<100, Len(counter), R(100)>>)

---------------------------------------------------------------------------
(* analyze_rare_chars *)

\* RareLoop adding 1 per rare character instead of its count
RECURSIVE RareLoop_CountTypes(_, _, _)
RareLoop_CountTypes(counter, common_chars, acc) ==
    IF counter = <<>> THEN acc
    ELSE LET char == Head(counter)[1]
             count == Head(counter)[2]
             acc2 == IF char \in common_chars
                     THEN [acc EXCEPT !.common_char_count = @ + count]
                     ELSE [acc EXCEPT !.rare_char_count = @ + 1,
                                      !.rare_chars = Append(@, <<char, count>>)]
         IN  RareLoop_CountTypes(Tail(counter), common_chars, acc2)

RECURSIVE RareLoop(_, _, _)
\* "for char, count in char_counter.items()": acc holds the three locals
RareLoop(counter, common_chars, acc) ==
    IF counter = <<>> THEN acc
    ELSE LET char == Head(counter)[1]
             count == Head(counter)[2]
             acc2 == IF char \in common_chars
                     THEN [acc EXCEPT !.common_char_count = @ + count]
                     ELSE [acc EXCEPT !.rare_char_count = @ + count,
                                      !.rare_chars = Append(@, <<char, count>>)]
         IN  RareLoop(Tail(counter), common_chars, acc2)

analyze_rare_chars(counter, common_chars) ==
    LET acc == RareLoop(counter, common_chars,
                        [rare_chars |-> <<>>, common_char_count |-> 0,
                         rare_char_count |-> 0])
        rare_chars == SortByCountDesc(acc.rare_chars)
        total_chars == acc.common_char_count + acc.rare_char_count
    IN  [rare_chars |-> rare_chars,
         rare_char_count |-> acc.rare_char_count,
         rare_char_ratio |-> IF total_chars > 0
                             THEN Rat(acc.rare_char_count, total_chars) ELSE R(0),
         rare_type_count |-> Len(rare_chars),
         rare_type_ratio |-> IF Len(counter) > 0
                             THEN Rat(Len(rare_chars), Len(counter)) ELSE R(0)]

---------------------------------------------------------------------------
(* calculate_avg_char_order *)

RECURSIVE OrdersOf(_, _)
OrdersOf(chars_list, char_order) ==
    IF chars_list = <<>> THEN <<>>
    ELSE IF Head(chars_list)[1] \in DOMAIN char_order
         THEN <<char_order[Head(chars_list)[1]]>> \o OrdersOf(Tail(chars_list), char_order)
         ELSE OrdersOf(Tail(chars_list), char_order)

\* calculate_avg_char_order dividing by the length of the list
calculate_avg_char_order_DivAll(chars_list, char_order) ==
    LET orders == OrdersOf(chars_list, char_order)
    IN  IF orders # <<>> THEN Rat(SumSeq(orders), Len(chars_list)) ELSE None

calculate_avg_char_order(chars_list, char_order) ==
    LET orders == OrdersOf(chars_list, char_order)
    IN  IF orders # <<>> THEN Rat(SumSeq(orders), Len(orders)) ELSE None

---------------------------------------------------------------------------
(* difficulty_score_to_star_display: the string as a sequence of stars *)

\* int(x) of a float: truncation toward zero
Trunc(r) == IF r[1] >= 0 THEN r[1] \div r[2] ELSE -((-r[1]) \div r[2])

Min(a, b) == IF a <= b THEN a ELSE b
Max(a, b) == IF a >= b THEN a ELSE b

\* difficulty_score_to_star_display without "and full_stars < 10"
difficulty_score_to_star_display_NoCap(score) ==
    LET units == Trunc(RDiv(score, R(5)))
        full_stars == Min(units \div 2, 10)
        half_star == units % 2
        solid == [i \in 1..Max(full_stars, 0) |-> "solid"]
        r == IF half_star # 0 THEN Append(solid, "hollow") ELSE solid
    IN  IF r = <<>> THEN <<"hollow">> ELSE r

difficulty_score_to_star_display(score) ==
    LET units == Trunc(RDiv(score, R(5)))
        full_stars == Min(units \div 2, 10)
        half_star == units % 2
        solid == [i \in 1..Max(full_stars, 0) |-> "solid"]
        r == IF half_star # 0 /\ full_stars < 10
             THEN Append(solid, "hollow") ELSE solid
    IN  IF r = <<>> THEN <<"hollow">> ELSE r

---------------------------------------------------------------------------
(* calculate_difficulty_rating; c is the module-level configuration *)

\* CoverageScore whose linear mode leaves out the division by 100
CoverageScore_NoPercent(c, weight, min, max, coverage) ==
    IF c.COVERAGE_LINEAR_MODE
    THEN RMul(weight, RPow(RSub(R(100), coverage), c.COVERAGE_ACCELERATION))
    ELSE IF RGe(coverage, max) THEN R(0)
         ELSE IF RLe(coverage, min) THEN weight
              ELSE LET ratio == RDiv(RSub(max, coverage), RSub(max, min))
                   IN  RMul(weight, RPow(ratio, c.COVERAGE_ACCELERATION))

\* CoverageScore with the direction turned round: high coverage scores high
CoverageScore_Ascending(c, weight, min, max, coverage) ==
    IF c.COVERAGE_LINEAR_MODE
    THEN RMul(weight, RPow(RDiv(coverage, R(100)), c.COVERAGE_ACCELERATION))
    ELSE IF RGe(coverage, max) THEN weight
         ELSE IF RLe(coverage, min) THEN R(0)
              ELSE LET ratio == RDiv(RSub(coverage, min), RSub(max, min))
                   IN  RMul(weight, RPow(ratio, c.COVERAGE_ACCELERATION))

\* CoverageScore whose linear mode clamps at the interval's upper bound
CoverageScore_LinearClamped(c, weight, min, max, coverage) ==
    IF c.COVERAGE_LINEAR_MODE
    THEN IF RGe(coverage, max) THEN R(0)
         ELSE RMul(weight, RPow(RDiv(RSub(R(100), coverage), R(100)),
                                c.COVERAGE_ACCELERATION))
    ELSE IF RGe(coverage, max) THEN R(0)
         ELSE IF RLe(coverage, min) THEN weight
              ELSE LET ratio == RDiv(RSub(max, coverage), RSub(max, min))
                   IN  RMul(weight, RPow(ratio, c.COVERAGE_ACCELERATION))

\* CoverageScore whose interval mode interpolates without the exponent
CoverageScore_IntervalNoExponent(c, weight, min, max, coverage) ==
    IF c.COVERAGE_LINEAR_MODE
    THEN RMul(weight, RPow(RDiv(RSub(R(100), coverage), R(100)),
                           c.COVERAGE_ACCELERATION))
    ELSE IF RGe(coverage, max) THEN R(0)
         ELSE IF RLe(coverage, min) THEN weight
              ELSE RMul(weight, RDiv(RSub(max, coverage), RSub(max, min)))

\* one coverage dimension (the code repeats it for 500, 1000 and 1500)
CoverageScore(c, weight, min, max, coverage) ==
    IF c.COVERAGE_LINEAR_MODE
    THEN RMul(weight, RPow(RDiv(RSub(R(100), coverage), R(100)),
                           c.COVERAGE_ACCELERATION))
    ELSE IF RGe(coverage, max) THEN R(0)
         ELSE IF RLe(coverage, min) THEN weight
              ELSE LET ratio == RDiv(RSub(max, coverage), RSub(max, min))
                   IN  RMul(weight, RPow(ratio, c.COVERAGE_ACCELERATION))

\* LinearScore with the interpolation ratio squared
LinearScore_Accelerated(weight, min, max, value) ==
    IF RLe(value, min) THEN R(0)
    ELSE IF RGe(value, max) THEN weight
         ELSE RMul(weight, RPow(RDiv(RSub(value, min), RSub(max, min)), 2))

\* required-character-count and character-type dimensions
LinearScore(weight, min, max, value) ==
    IF RLe(value, min) THEN R(0)
    ELSE IF RGe(value, max) THEN weight
         ELSE RDiv(RMul(weight, RSub(value, min)), RSub(max, min))

\* OrderScore with the no-data default WEIGHT * 2
OrderScore_DoubleDefault(c, weight, min, max, avg_order) ==
    IF avg_order = None THEN RMul(weight, R(2))
    ELSE IF RLe(avg_order, min) THEN R(0)
         ELSE IF RGe(avg_order, max) THEN weight
              ELSE LET ratio == RDiv(RSub(avg_order, min), RSub(max, min))
                   IN  RMul(weight, RPow(ratio, c.ORDER_ACCELERATION))

\* OrderScore interpolating without the exponent
OrderScore_NoExponent(c, weight, min, max, avg_order) ==
    IF avg_order = None THEN RDiv(weight, R(2))
    ELSE IF RLe(avg_order, min) THEN R(0)
         ELSE IF RGe(avg_order, max) THEN weight
              ELSE RMul(weight, RDiv(RSub(avg_order, min), RSub(max, min)))

\* OrderScore with the no-data default written as a number
OrderScore_FixedDefault(c, weight, min, max, avg_order) ==
    IF avg_order = None THEN R(25)
    ELSE IF RLe(avg_order, min) THEN R(0)
         ELSE IF RGe(avg_order, max) THEN weight
              ELSE LET ratio == RDiv(RSub(avg_order, min), RSub(max, min))
                   IN  RMul(weight, RPow(ratio, c.ORDER_ACCELERATION))

\* one average-order dimension (the code repeats it for 95 and 99)
OrderScore(c, weight, min, max, avg_order) ==
    IF avg_order = None THEN RDiv(weight, R(2))
    ELSE IF RLe(avg_order, min) THEN R(0)
         ELSE IF RGe(avg_order, max) THEN weight
              ELSE LET ratio == RDiv(RSub(avg_order, min), RSub(max, min))
                   IN  RMul(weight, RPow(ratio, c.ORDER_ACCELERATION))

RECURSIVE CharsFor(_, _, _)
\* "for target_pct, char_count, _ in cumulative_coverage: if target_pct == t"
CharsFor(cumulative_coverage, target, sofar) ==
    IF cumulative_coverage = <<>> THEN sofar
    ELSE CharsFor(Tail(cumulative_coverage), target,
                  IF Head(cumulative_coverage)[1] = target
                  THEN Head(cumulative_coverage)[2] ELSE sofar)

\* coverage_stats.get(n, {}).get('coverage', 0)
CoverageAt(coverage_stats, n) ==
    IF n \in DOMAIN coverage_stats THEN coverage_stats[n].coverage ELSE R(0)

RawScore(d) ==
    RSumSeq(<<d.coverage_500[1], d.coverage_1000[1], d.coverage_1500[1],
              d.chars_95[1], d.chars_99[1], d.order_95[1], d.order_99[1],
              d.char_types[1]>>)

\* TotalWeight without WEIGHT_CHAR_TYPES
TotalWeight_SevenWeights(c) ==
    RSumSeq(<<c.WEIGHT_COVERAGE_500, c.WEIGHT_COVERAGE_1000, c.WEIGHT_COVERAGE_1500,
              c.WEIGHT_CHARS_95, c.WEIGHT_CHARS_99,
              c.WEIGHT_ORDER_95, c.WEIGHT_ORDER_99>>)

TotalWeight(c) ==
    RSumSeq(<<c.WEIGHT_COVERAGE_500, c.WEIGHT_COVERAGE_1000, c.WEIGHT_COVERAGE_1500,
              c.WEIGHT_CHARS_95, c.WEIGHT_CHARS_99,
              c.WEIGHT_ORDER_95, c.WEIGHT_ORDER_99, c.WEIGHT_CHAR_TYPES>>)

\* Normalize dividing whatever the total weight
Normalize_Unguarded(raw_score, total_weight) ==
    RMul(RDiv(raw_score, total_weight), R(100))

Normalize(raw_score, total_weight) ==
    IF RLt(R(0), total_weight)
    THEN RMul(RDiv(raw_score, total_weight), R(100))
    ELSE R(0)

calculate_difficulty_rating(c, counter, total_chars, coverage_stats, cumulative_coverage, avg_order_95, avg_order_99, extra_char_types) ==
    LET coverage_500 == CoverageAt(coverage_stats, Top500)
        coverage_1000 == CoverageAt(coverage_stats, Top1000)
        coverage_1500 == CoverageAt(coverage_stats, Top1500)
        chars_for_95 == CharsFor(cumulative_coverage, 95, 0)
        chars_for_99 == CharsFor(cumulative_coverage, 99, 0)
        d == [coverage_500 |->
                 <<CoverageScore(c, c.WEIGHT_COVERAGE_500, c.COVERAGE_500_MIN,
                                 c.COVERAGE_500_MAX, coverage_500),
                   c.WEIGHT_COVERAGE_500, coverage_500>>,
              coverage_1000 |->
                 <<CoverageScore(c, c.WEIGHT_COVERAGE_1000, c.COVERAGE_1000_MIN,
                                 c.COVERAGE_1000_MAX, coverage_1000),
                   c.WEIGHT_COVERAGE_1000, coverage_1000>>,
              coverage_1500 |->
                 <<CoverageScore(c, c.WEIGHT_COVERAGE_1500, c.COVERAGE_1500_MIN,
                                 c.COVERAGE_1500_MAX, coverage_1500),
                   c.WEIGHT_COVERAGE_1500, coverage_1500>>,
              chars_95 |->
                 <<LinearScore(c.WEIGHT_CHARS_95, c.CHARS_95_MIN, c.CHARS_95_MAX,
                               R(chars_for_95)),
                   c.WEIGHT_CHARS_95, R(chars_for_95)>>,
              chars_99 |->
                 <<LinearScore(c.WEIGHT_CHARS_99, c.CHARS_99_MIN, c.CHARS_99_MAX,
                               R(chars_for_99)),
                   c.WEIGHT_CHARS_99, R(chars_for_99)>>,
              order_95 |->
                 <<OrderScore(c, c.WEIGHT_ORDER_95, c.ORDER_95_MIN, c.ORDER_95_MAX,
                              avg_order_95),
                   c.WEIGHT_ORDER_95, avg_order_95>>,
              order_99 |->
                 <<OrderScore(c, c.WEIGHT_ORDER_99, c.ORDER_99_MIN, c.ORDER_99_MAX,
                              avg_order_99),
                   c.WEIGHT_ORDER_99, avg_order_99>>,
              char_types |->
                 <<LinearScore(c.WEIGHT_CHAR_TYPES, c.CHAR_TYPES_MIN, c.CHAR_TYPES_MAX,
                               R(extra_char_types)),
                   c.WEIGHT_CHAR_TYPES, R(extra_char_types)>>]
        raw_score == RawScore(d)
        total_weight == TotalWeight(c)
        \* a ZeroDivisionError raised in a dimension leaves the function: the
        \* result then carries it in the place of the score, with no stars
        difficulty_score == IF raw_score = ZeroDivisionError THEN ZeroDivisionError
                            ELSE Normalize(raw_score, total_weight)
    IN  [stars |-> IF difficulty_score = ZeroDivisionError THEN <<>>
                   ELSE difficulty_score_to_star_display(difficulty_score),
         difficulty_score |-> difficulty_score,
         score_details |-> [dims |-> d, raw_score |-> raw_score,
                            total_weight |-> total_weight]]

---------------------------------------------------------------------------
(* process_file, up to the difficulty rating *)

Take(s, n) == SubSeq(s, 1, Min(n, Len(s)))

ExtraCharTypes(c, counter, reference_chars) ==
    IF Len(reference_chars) > 0
    THEN Cardinality({i \in 1..Len(counter) : counter[i][1] \notin Range(reference_chars)})
    ELSE Max(0, Len(counter) - c.CHAR_TYPES_BASELINE)

\* shared_reference_sets = <<>> stands for None: the sets are then computed locally
CoverageStats(counter, total_chars, reference_chars, char_order, reference_sets) ==
    LET sets == IF reference_sets # <<>> THEN reference_sets
                ELSE precompute_reference_sets(reference_chars, char_order, stats_ranges)
    IN  [n \in stats_ranges |->
            calculate_coverage_stats_optimized(n, sets, counter, total_chars)]

\* process_file from "all_chars_by_freq = sorted(...)" to the rating
Analysis(c, counter, reference_chars, char_order, common_chars, reference_sets) ==
    LET total_chars == Total(counter)
        all_chars_by_freq == SortByCountDesc(counter)
        coverage_stats == CoverageStats(counter, total_chars, reference_chars,
                                        char_order, reference_sets)
        cumulative_coverage == CumulativeCoverage(counter, all_chars_by_freq, total_chars)
        rare_analysis == analyze_rare_chars(counter, common_chars)
        chars_for_95_pct == CharsFor(cumulative_coverage, 95, 0)
        chars_for_99_pct == CharsFor(cumulative_coverage, 99, 0)
        chars_for_95_list == IF chars_for_95_pct > 0
                             THEN Take(all_chars_by_freq, chars_for_95_pct) ELSE <<>>
        chars_for_99_list == IF chars_for_99_pct > 0
                             THEN Take(all_chars_by_freq, chars_for_99_pct) ELSE <<>>
        avg_order_95 == calculate_avg_char_order(chars_for_95_list, char_order)
        avg_order_99 == calculate_avg_char_order(chars_for_99_list, char_order)
        extra_char_types == ExtraCharTypes(c, counter, reference_chars)
        rated == calculate_difficulty_rating(c, counter, total_chars, coverage_stats,
                      cumulative_coverage, avg_order_95, avg_order_99, extra_char_types)
    IN  [total_chars |-> total_chars,
         all_chars_by_freq |-> all_chars_by_freq,
         coverage_stats |-> coverage_stats,
         cumulative_coverage |-> cumulative_coverage,
         rare_analysis |-> rare_analysis,
         avg_order_95 |-> avg_order_95,
         avg_order_99 |-> avg_order_99,
         extra_char_types |-> extra_char_types,
         stars |-> rated.stars,
         difficulty_score |-> rated.difficulty_score,
         score_details |-> rated.score_details]

\* process_file without the "if total_chars == 0: return"
process_file_NoEarlyReturn(c, counter, reference_chars, char_order, common_chars, reference_sets) ==
    <<Analysis(c, counter, reference_chars, char_order, common_chars, reference_sets)>>

\* <<>> is the bare "return" (None) on a file without Chinese characters
process_file(c, counter, reference_chars, char_order, common_chars, reference_sets) ==
    IF Total(counter) = 0 THEN <<>>
    ELSE <<Analysis(c, counter, reference_chars, char_order, common_chars,
                    reference_sets)>>

---------------------------------------------------------------------------
(* Inputs *)

\* what load_reference_chars can return (None is <<>>)
HeadLists == UNION {[1..n -> Chars] : n \in 0..MaxHead}

\* what load_dict_order can return: each line number names one character.
\* Characters are numbered so that those of the dictionary come first, in
\* increasing line number; head lists and documents range over every order.
CharOrders ==
    UNION {{f \in [1..k -> 1..MaxOrder] : \A x, y \in 1..k : x < y => f[x] < f[y]} :
           k \in 0..Cardinality(Chars)}

\* what count_chars can return: distinct characters, positive counts
Documents ==
    UNION {{d \in [1..n -> Chars \X CountValues] :
               \A i, j \in 1..n : i # j => d[i][1] # d[j][1]} :
           n \in 0..Cardinality(Chars)}

\* the configuration block of the source (0.8 and 0.7 replaced by 2 and 1)
SourceConfig ==
    [WEIGHT_COVERAGE_500 |-> R(10), WEIGHT_COVERAGE_1000 |-> R(10),
     WEIGHT_COVERAGE_1500 |-> R(20),
     WEIGHT_CHARS_95 |-> R(0), WEIGHT_CHARS_99 |-> R(0),
     WEIGHT_ORDER_95 |-> R(50), WEIGHT_ORDER_99 |-> R(30),
     WEIGHT_CHAR_TYPES |-> R(10),
     CHARS_95_MIN |-> R(300), CHARS_95_MAX |-> R(2500),
     CHARS_99_MIN |-> R(400), CHARS_99_MAX |-> R(4000),
     ORDER_95_MIN |-> R(400), ORDER_95_MAX |-> R(2000),
     ORDER_99_MIN |-> R(500), ORDER_99_MAX |-> R(3000),
     CHAR_TYPES_BASELINE |-> 1500,
     CHAR_TYPES_MIN |-> R(0), CHAR_TYPES_MAX |-> R(4500),
     COVERAGE_LINEAR_MODE |-> TRUE,
     COVERAGE_500_MIN |-> R(65), COVERAGE_500_MAX |-> R(92),
     COVERAGE_1000_MIN |-> R(80), COVERAGE_1000_MAX |-> R(98),
     COVERAGE_1500_MIN |-> R(88), COVERAGE_1500_MAX |-> Rat(199, 2),
     COVERAGE_ACCELERATION |-> 2, ORDER_ACCELERATION |-> 1]

\* the same block with the count, order and type intervals scaled to the alphabet
ScaledConfig ==
    [SourceConfig EXCEPT
        !.CHARS_95_MIN = R(1), !.CHARS_95_MAX = R(3),
        !.CHARS_99_MIN = R(1), !.CHARS_99_MAX = R(3),
        !.ORDER_95_MIN = R(1), !.ORDER_95_MAX = R(3),
        !.ORDER_99_MIN = R(1), !.ORDER_99_MAX = R(3),
        !.CHAR_TYPES_BASELINE = 2,
        !.CHAR_TYPES_MIN = R(0), !.CHAR_TYPES_MAX = R(2)]

---------------------------------------------------------------------------
(* The program: feature_book_statistics over a books directory of one file *)

Init ==
    /\ reference_file \in HeadLists
    /\ dict_file \in CharOrders
    /\ pc = "menu"
    /\ cfg = ScaledConfig
    /\ shared_reference_chars = <<>>
    /\ shared_char_order = <<>>
    /\ shared_common_chars = {}
    /\ shared_reference_sets = <<>>
    /\ char_counter = <<>>
    /\ result = <<>>
    /\ rating = <<>>
    /\ display = <<>>
    /\ NoUpload

\* a single file chosen: process_file loads the reference data itself and
\* computes the reference sets locally
ProcessSingleFile ==
    /\ pc = "menu"
    /\ \E doc \in Documents :
          /\ char_counter' = doc
          /\ result' = process_file(cfg, doc, reference_file, dict_file,
                                    load_common_chars(reference_file, dict_file), <<>>)
    /\ pc' = "done"
    /\ UNCHANGED upload_vars
    /\ UNCHANGED <<reference_file, dict_file, cfg, shared_reference_chars,
                   shared_char_order, shared_common_chars, shared_reference_sets,
                   rating, display>>

\* 'all' chosen: preload of the shared reference data
Preload ==
    /\ pc = "menu"
    /\ shared_reference_chars' = reference_file
    /\ shared_char_order' = dict_file
    /\ shared_common_chars' = load_common_chars(reference_file, dict_file)
    /\ shared_reference_sets' =
           precompute_reference_sets(reference_file, dict_file, stats_ranges)
    /\ pc' = "batch"
    /\ UNCHANGED upload_vars
    /\ UNCHANGED <<reference_file, dict_file, cfg, char_counter, result, rating,
                   display>>

\* the batch loop: process_file on the shared data
ProcessFile ==
    /\ pc = "batch"
    /\ \E doc \in Documents :
          /\ char_counter' = doc
          /\ result' = process_file(cfg, doc, shared_reference_chars, shared_char_order,
                                    shared_common_chars, shared_reference_sets)
    /\ pc' = "done"
    /\ UNCHANGED upload_vars
    /\ UNCHANGED <<reference_file, dict_file, cfg, shared_reference_chars,
                   shared_char_order, shared_common_chars, shared_reference_sets,
                   rating, display>>

Next == ProcessSingleFile \/ Preload \/ ProcessFile

Spec == Init /\ [][Next]_vars

---------------------------------------------------------------------------
(* The batch loop over a directory of several books *)

\* the books' documents
BatchDocuments == {doc \in Documents : Len(doc) <= 2}

\* ProcessNextFile where process_file adds the document's characters to the
\* common-character set it was handed
ProcessNextFile_UpdatesCommon ==
    /\ pc = "batch"
    /\ \E doc \in BatchDocuments :
          /\ char_counter' = doc
          /\ result' = process_file(cfg, doc, shared_reference_chars, shared_char_order,
                                    shared_common_chars, shared_reference_sets)
          /\ shared_common_chars' = shared_common_chars \cup Keys(doc)
    /\ UNCHANGED upload_vars
    /\ UNCHANGED <<reference_file, dict_file, pc, cfg, shared_reference_chars,
                   shared_char_order, shared_reference_sets, rating, display>>

\* one pass of "for idx, file_path in enumerate(files_to_process)"; the loop
\* goes on to the next book
ProcessNextFile ==
    /\ pc = "batch"
    /\ \E doc \in BatchDocuments :
          /\ char_counter' = doc
          /\ result' = process_file(cfg, doc, shared_reference_chars, shared_char_order,
                                    shared_common_chars, shared_reference_sets)
    /\ UNCHANGED upload_vars
    /\ UNCHANGED <<reference_file, dict_file, pc, cfg, shared_reference_chars,
                   shared_char_order, shared_common_chars, shared_reference_sets,
                   rating, display>>

NextBatch == Preload \/ ProcessNextFile

SpecBatch == Init /\ [][NextBatch]_vars

---------------------------------------------------------------------------
(* calculate_difficulty_rating on its own, over configurations and inputs *)

WeightSets ==
    {<<R(10), R(10), R(20), R(0), R(0), R(50), R(30), R(10)>>,
     <<R(0), R(0), R(0), R(0), R(0), R(0), R(0), R(0)>>,
     <<R(1), R(2), R(3), R(4), R(5), R(6), R(7), R(8)>>,
     <<R(10), R(0), R(20), R(5), R(5), R(0), R(0), R(10)>>}

WithWeights(c, w) ==
    [c EXCEPT !.WEIGHT_COVERAGE_500 = w[1], !.WEIGHT_COVERAGE_1000 = w[2],
              !.WEIGHT_COVERAGE_1500 = w[3], !.WEIGHT_CHARS_95 = w[4],
              !.WEIGHT_CHARS_99 = w[5], !.WEIGHT_ORDER_95 = w[6],
              !.WEIGHT_ORDER_99 = w[7], !.WEIGHT_CHAR_TYPES = w[8]]

\* every interval collapsed to a point: lower_bound = upper_bound
PointIntervals ==
    [SourceConfig EXCEPT
        !.CHARS_95_MAX = R(300), !.CHARS_99_MAX = R(400),
        !.ORDER_95_MAX = R(400), !.ORDER_99_MAX = R(500),
        !.CHAR_TYPES_MAX = R(0),
        !.COVERAGE_500_MIN = R(90), !.COVERAGE_500_MAX = R(90),
        !.COVERAGE_1000_MIN = R(90), !.COVERAGE_1000_MAX = R(90),
        !.COVERAGE_1500_MIN = R(90), !.COVERAGE_1500_MAX = R(90),
        !.COVERAGE_ACCELERATION = 1, !.ORDER_ACCELERATION = 2]

\* the exponents exchanged
OrderAccelerated ==
    [SourceConfig EXCEPT !.COVERAGE_ACCELERATION = 1, !.ORDER_ACCELERATION = 2]

RatingConfigs ==
    {[WithWeights(b, w) EXCEPT !.COVERAGE_LINEAR_MODE = m] :
        b \in {SourceConfig, OrderAccelerated, PointIntervals},
        w \in WeightSets, m \in BOOLEAN}

\* coverage@500 <= coverage@1000 <= coverage@1500, as the reference sets nest
CoverageValues ==
    {t \in {R(0), R(90), R(100)} \X {R(0), R(90), R(100)} \X {R(0), R(90), R(100)} :
        RLe(t[1], t[2]) /\ RLe(t[2], t[3])}
CharCountValues == {<<0, 0>>, <<300, 400>>, <<1400, 2200>>, <<1400, 5000>>}
AvgOrder95Values == {None, R(300), R(1200), R(5000)}
AvgOrder99Values == {None, R(300), R(1750), R(5000)}
ExtraTypeValues == {0, 2250, 5000}

InitRating ==
    /\ pc = "rating"
    /\ cfg \in RatingConfigs
    /\ reference_file = <<>>
    /\ dict_file = <<>>
    /\ shared_reference_chars = <<>>
    /\ shared_char_order = <<>>
    /\ shared_common_chars = {}
    /\ shared_reference_sets = <<>>
    /\ char_counter = <<>>
    /\ result = <<>>
    /\ rating = <<>>
    /\ display = <<>>
    /\ NoUpload

\* one call, with the arguments process_file would hand over
Rate ==
    /\ pc = "rating"
    /\ \E cov \in CoverageValues, k \in CharCountValues,
          a95 \in AvgOrder95Values, a99 \in AvgOrder99Values, x \in ExtraTypeValues :
          LET coverage_stats == (Top500 :> [coverage |-> cov[1]]) @@
                                (Top1000 :> [coverage |-> cov[2]]) @@
                                (Top1500 :> [coverage |-> cov[3]])
              cumulative_coverage == <<<<95, k[1], R(95)>>, <<99, k[2], R(99)>>>>
          IN  rating' = <<[coverage_stats |-> coverage_stats,
                           cumulative_coverage |-> cumulative_coverage,
                           avg_order_95 |-> a95, avg_order_99 |-> a99,
                           extra_char_types |-> x,
                           out |-> calculate_difficulty_rating(cfg, <<>>, 0,
                                       coverage_stats, cumulative_coverage,
                                       a95, a99, x)]>>
    /\ pc' = "rated"
    /\ UNCHANGED upload_vars
    /\ UNCHANGED <<reference_file, dict_file, cfg, shared_reference_chars,
                   shared_char_order, shared_common_chars, shared_reference_sets,
                   char_counter, result, display>>

NextRating == Rate

SpecRating == InitRating /\ [][NextRating]_vars

---------------------------------------------------------------------------
(* calculate_difficulty_rating under configurations whose intervals are
   empty or turned round *)

\* every interval collapsed onto a value the call is made with
PointAtInput ==
    [SourceConfig EXCEPT
        !.CHARS_95_MIN = R(1400), !.CHARS_95_MAX = R(1400),
        !.CHARS_99_MIN = R(2200), !.CHARS_99_MAX = R(2200),
        !.ORDER_95_MIN = R(1200), !.ORDER_95_MAX = R(1200),
        !.ORDER_99_MIN = R(1750), !.ORDER_99_MAX = R(1750),
        !.CHAR_TYPES_MIN = R(2250), !.CHAR_TYPES_MAX = R(2250),
        !.COVERAGE_500_MIN = R(90), !.COVERAGE_500_MAX = R(90),
        !.COVERAGE_1000_MIN = R(90), !.COVERAGE_1000_MAX = R(90),
        !.COVERAGE_1500_MIN = R(90), !.COVERAGE_1500_MAX = R(90)]

\* every interval with its bounds exchanged: lower_bound > upper_bound
InvertedIntervals ==
    [SourceConfig EXCEPT
        !.CHARS_95_MIN = R(2500), !.CHARS_95_MAX = R(300),
        !.CHARS_99_MIN = R(4000), !.CHARS_99_MAX = R(400),
        !.ORDER_95_MIN = R(2000), !.ORDER_95_MAX = R(400),
        !.ORDER_99_MIN = R(3000), !.ORDER_99_MAX = R(500),
        !.CHAR_TYPES_MIN = R(4500), !.CHAR_TYPES_MAX = R(0),
        !.COVERAGE_500_MIN = R(92), !.COVERAGE_500_MAX = R(65),
        !.COVERAGE_1000_MIN = R(98), !.COVERAGE_1000_MAX = R(80),
        !.COVERAGE_1500_MIN = Rat(199, 2), !.COVERAGE_1500_MAX = R(88)]

AnyConfigs ==
    {[WithWeights(b, w) EXCEPT !.COVERAGE_LINEAR_MODE = m] :
        b \in {SourceConfig, PointIntervals, PointAtInput, InvertedIntervals},
        w \in WeightSets, m \in BOOLEAN}

InitRatingAny ==
    /\ pc = "rating"
    /\ cfg \in AnyConfigs
    /\ reference_file = <<>>
    /\ dict_file = <<>>
    /\ shared_reference_chars = <<>>
    /\ shared_char_order = <<>>
    /\ shared_common_chars = {}
    /\ shared_reference_sets = <<>>
    /\ char_counter = <<>>
    /\ result = <<>>
    /\ rating = <<>>
    /\ display = <<>>
    /\ NoUpload

SpecRatingAny == InitRatingAny /\ [][NextRating]_vars

---------------------------------------------------------------------------
(* difficulty_score_to_star_display on its own, over scores in steps of 0.5
   from ScoreMargin below 0 to ScoreMargin above 100 *)

ScoreValues == {Rat(n, 2) : n \in (-2 * ScoreMargin)..(200 + 2 * ScoreMargin)}

InitStars ==
    /\ pc = "stars"
    /\ cfg = SourceConfig
    /\ reference_file = <<>>
    /\ dict_file = <<>>
    /\ shared_reference_chars = <<>>
    /\ shared_char_order = <<>>
    /\ shared_common_chars = {}
    /\ shared_reference_sets = <<>>
    /\ char_counter = <<>>
    /\ result = <<>>
    /\ rating = <<>>
    /\ display = <<>>
    /\ NoUpload

\* one call, as made for a computed score and for a score read back
DisplayStars ==
    /\ pc = "stars"
    /\ \E score \in ScoreValues :
          display' = <<[score |-> score,
                       stars |-> difficulty_score_to_star_display(score)]>>
    /\ pc' = "shown"
    /\ UNCHANGED upload_vars
    /\ UNCHANGED <<reference_file, dict_file, cfg, shared_reference_chars,
                   shared_char_order, shared_common_chars, shared_reference_sets,
                   char_counter, result, rating>>

NextStars == DisplayStars

SpecStars == InitStars /\ [][NextStars]_vars

---------------------------------------------------------------------------
(* Properties *)

\* the reference sets process_file works with: the shared ones in a batch,
\* the locally computed ones for a single file
EffectiveSets ==
    IF shared_reference_sets # <<>> THEN shared_reference_sets
    ELSE precompute_reference_sets(reference_file, dict_file, stats_ranges)

RatingMilestones == {50, 80, 90, 95, 99}

RECURSIVE SumCounts(_, _)
\* the counts of the document entries at the positions idxs, added up
SumCounts(counter, idxs) ==
    IF idxs = {} THEN 0
    ELSE LET i == CHOOSE x \in idxs : TRUE
         IN  counter[i][2] + SumCounts(counter, idxs \ {i})

\* the sum of the k largest counts, whatever the order of the entries
TopKSum(counter, k) ==
    LET sums == {SumCounts(counter, S) :
                    S \in {T \in SUBSET (1..Len(counter)) : Cardinality(T) = k}}
    IN  CHOOSE x \in sums : \A y \in sums : y <= x

\* the counts of the entries whose character lies in chars, added up
SumInSet(counter, chars) ==
    SumCounts(counter, {i \in 1..Len(counter) : counter[i][1] \in chars})

RECURSIVE WalkAll(_, _, _, _, _)
\* the cumulative walk without the early exit
WalkAll(all_chars_by_freq, idx, cumulative_count, st, total_chars) ==
    IF idx > Len(all_chars_by_freq) THEN st.points
    ELSE LET cum == cumulative_count + all_chars_by_freq[idx][2]
             st2 == MarkThresholds(1, st, idx, RMul(Rat(cum, total_chars), R(100)))
         IN  WalkAll(all_chars_by_freq, idx + 1, cum, st2, total_chars)

\* C1: with non-negative weights, lower <= upper bounds and positive exponents,
\* the difficulty score of every call lies in [0, 100], in linear and in
\* interval coverage mode.
C1_NormalizationBound ==
    rating # <<>> =>
        /\ RLe(R(0), rating[1].out.difficulty_score)
        /\ RLe(rating[1].out.difficulty_score, R(100))

\* a call in interval mode, with weights, that reaches the upper end 100
C1_Witness ==
    /\ rating # <<>>
    /\ ~cfg.COVERAGE_LINEAR_MODE
    /\ rating[1].out.score_details.total_weight # R(0)
    /\ rating[1].out.difficulty_score = R(100)

\* C2: raw_score is the sum of the eight earned scores, total_weight the sum
\* of the eight configured weights, and difficulty_score is
\* raw_score / total_weight * 100 when total_weight > 0 and 0 otherwise.
C2_Aggregation ==
    rating # <<>> =>
        LET o == rating[1].out
            d == o.score_details.dims
            earned ==
                RAdd(d.coverage_500[1], RAdd(d.coverage_1000[1],
                RAdd(d.coverage_1500[1], RAdd(d.chars_95[1], RAdd(d.chars_99[1],
                RAdd(d.order_95[1], RAdd(d.order_99[1], d.char_types[1])))))))
            weights ==
                RAdd(cfg.WEIGHT_COVERAGE_500, RAdd(cfg.WEIGHT_COVERAGE_1000,
                RAdd(cfg.WEIGHT_COVERAGE_1500, RAdd(cfg.WEIGHT_CHARS_95,
                RAdd(cfg.WEIGHT_CHARS_99, RAdd(cfg.WEIGHT_ORDER_95,
                RAdd(cfg.WEIGHT_ORDER_99, cfg.WEIGHT_CHAR_TYPES)))))))
        IN  /\ o.score_details.raw_score = earned
            /\ o.score_details.total_weight = weights
            /\ weights[1] > 0 =>
                  o.difficulty_score = RMul(RDiv(earned, weights), R(100))
            /\ weights[1] = 0 => o.difficulty_score = R(0)

\* every weight 0, inputs that would otherwise score: the result is 0
C2_Witness ==
    /\ rating # <<>>
    /\ rating[1].out.score_details.total_weight = R(0)
    /\ rating[1].avg_order_95 = None
    /\ rating[1].extra_char_types > 0
    /\ rating[1].out.difficulty_score = R(0)

\* C3: the precomputed reference sets nest: N1 < N2 implies
\* cache[N1] \subseteq cache[N2], with a head list and in the fallback.
C3_MonotonicContainment ==
    pc # "menu" =>
        \A n1, n2 \in DOMAIN EffectiveSets :
            n1 < n2 => EffectiveSets[n1] \subseteq EffectiveSets[n2]

\* head list present, a threshold inside it and one beyond it that took
\* characters from the rank mapping
C3_Witness ==
    /\ pc = "batch"
    /\ Len(shared_reference_chars) = 2
    /\ shared_reference_sets[1] # shared_reference_sets[2]
    /\ shared_reference_sets[2] # shared_reference_sets[3]

\* C4: for a fixed document the coverage is non-decreasing in the threshold.
C4_CoverageMonotone ==
    result # <<>> =>
        \A n1, n2 \in stats_ranges :
            n1 < n2 => RLe(result[1].coverage_stats[n1].coverage,
                           result[1].coverage_stats[n2].coverage)

\* a batch document whose coverage grows strictly from threshold 1 to 2 to 3
C4_Witness ==
    /\ pc = "done" /\ result # <<>>
    /\ shared_reference_sets # <<>>
    /\ RLt(result[1].coverage_stats[1].coverage, result[1].coverage_stats[2].coverage)
    /\ RLt(result[1].coverage_stats[2].coverage, result[1].coverage_stats[3].coverage)

\* C5: the cumulative-coverage points come in strictly increasing target
\* order with non-decreasing character counts; chars_for_95 <= chars_for_99
\* <= number of distinct characters.
C5_CumulativeOrdering ==
    result # <<>> =>
        LET cc == result[1].cumulative_coverage
        IN  /\ \A i, j \in 1..Len(cc) :
                   i < j => cc[i][1] < cc[j][1] /\ cc[i][2] <= cc[j][2]
            /\ CharsFor(cc, 95, 0) <= CharsFor(cc, 99, 0)
            /\ CharsFor(cc, 99, 0) <= Len(char_counter)

\* 50 and 80 reached by the first character, 95 later, 99 later still, and
\* a character left over
C5_Witness ==
    /\ result # <<>>
    /\ LET cc == result[1].cumulative_coverage
       IN  /\ CharsFor(cc, 50, 0) = 1 /\ CharsFor(cc, 95, 0) = 1
           /\ CharsFor(cc, 99, 0) = 2
           /\ Len(char_counter) = 3

\* C6: for each milestone m the recorded count is the least k such that the
\* k largest counts make up at least m percent of the total, counted from 1,
\* and the recorded percentage is that share.
C6_SmallestPrefix ==
    result # <<>> =>
        LET cc == result[1].cumulative_coverage
            total == Total(char_counter)
        IN  /\ \A m \in RatingMilestones : \E i \in 1..Len(cc) : cc[i][1] = m
            /\ \A i \in 1..Len(cc) :
                  cc[i][1] \in RatingMilestones =>
                     /\ cc[i][2] \in 1..Len(char_counter)
                     /\ TopKSum(char_counter, cc[i][2]) * 100 >= cc[i][1] * total
                     /\ \A j \in 0..(cc[i][2] - 1) :
                           TopKSum(char_counter, j) * 100 < cc[i][1] * total
                     /\ cc[i][3] = Rat(TopKSum(char_counter, cc[i][2]) * 100, total)

\* equal counts met in the document before a larger one: 50 percent needs
\* one character, 99 percent two of the three
C6_Witness ==
    /\ result # <<>>
    /\ Len(char_counter) = 3
    /\ char_counter[1][2] = char_counter[2][2]
    /\ char_counter[3][2] > char_counter[1][2]
    /\ CharsFor(result[1].cumulative_coverage, 50, 0) = 1
    /\ CharsFor(result[1].cumulative_coverage, 99, 0) = 2

\* C7: the sequence has exactly the six targets 50, 80, 90, 95, 99, 100, each
\* once, ends with (100, distinct characters, 100.0), and is what the walk
\* without the early exit gives.
C7_SixPoints ==
    result # <<>> =>
        LET cc == result[1].cumulative_coverage
        IN  /\ [i \in 1..Len(cc) |-> cc[i][1]] = <<50, 80, 90, 95, 99, 100>>
            /\ cc[Len(cc)] = <<100, Len(char_counter), R(100)>>
            /\ cc = Append(WalkAll(result[1].all_chars_by_freq, 1, 0,
                                   [found |-> {}, points |-> <<>>],
                                   Total(char_counter)),
                           <<100, Len(char_counter), R(100)>>)

\* every milestone reached by the first of two characters, where the scan
\* stopped
C7_Witness ==
    /\ result # <<>>
    /\ Len(char_counter) = 2
    /\ CharsFor(result[1].cumulative_coverage, 99, 0) = 1

C9_CoverageStats ==
    /\ result # <<>> =>
          \A n \in stats_ranges :
             LET st == result[1].coverage_stats[n]
                 set == EffectiveSets[n]
                 total == Total(char_counter)
             IN  /\ st.total_count = SumInSet(char_counter, set)
                 /\ st.actual_n = Cardinality(set)
                 /\ RMul(st.coverage, R(total)) = R(100 * st.total_count)
                 /\ set # {} => RMul(st.avg_count, R(Cardinality(set))) = R(st.total_count)
                 /\ set = {} => st.avg_count = R(0)
    /\ pc = "done" =>
          /\ calculate_coverage_stats_optimized(MaxTopN + 1, EffectiveSets,
                                                char_counter, Total(char_counter))
               = [actual_n |-> 0, coverage |-> R(0), avg_count |-> R(0),
                  total_count |-> 0]
          /\ \A n \in stats_ranges :
                calculate_coverage_stats_optimized(n, EffectiveSets, char_counter, 0).coverage
                   = R(0)

\* a reference set with a character the document lacks, one it has, and an
\* empty reference set for another threshold
C9_Witness ==
    /\ result # <<>>
    /\ \E n \in stats_ranges :
          /\ result[1].coverage_stats[n].actual_n = 2
          /\ result[1].coverage_stats[n].total_count = 100
          /\ result[1].coverage_stats[n].avg_count = R(50)
          /\ Total(char_counter) = 101
    /\ result[1].coverage_stats[1].actual_n = 0

\* C10: the reference set built for N has at most N characters, so
\* actual_n <= N, with a head list and in the fallback.
C10_AtMostN ==
    /\ pc # "menu" => \A n \in DOMAIN EffectiveSets : Cardinality(EffectiveSets[n]) <= n
    /\ result # <<>> =>
          \A n \in stats_ranges : result[1].coverage_stats[n].actual_n <= n

\* head list of two, threshold 3 filled up to exactly 3 from the rank
\* mapping, threshold 4 short of 4
C10_Witness ==
    /\ result # <<>>
    /\ Len(reference_file) = 2
    /\ result[1].coverage_stats[3].actual_n = 3
    /\ result[1].coverage_stats[4].actual_n < 4

\* the common-character set process_file works with
EffectiveCommon ==
    IF pc = "menu" \/ shared_reference_sets = <<>>
    THEN load_common_chars(reference_file, dict_file)
    ELSE shared_common_chars

\* the positions of the document whose character is outside chars
RareIdx(counter, chars) == {i \in 1..Len(counter) : counter[i][1] \notin chars}

\* C11: rare_chars holds exactly the document's (character, count) pairs
\* whose character is not common, each once; rare_char_count is the sum of
\* their counts, rare_type_count their number; rare_char_ratio is
\* rare_char_count over the document total and rare_type_ratio is
\* rare_type_count over the number of distinct characters, each 0 when its
\* denominator is 0.
C11_RareAnalysis ==
    pc = "done" =>
        LET ra == IF result # <<>> THEN result[1].rare_analysis
                  ELSE analyze_rare_chars(char_counter, EffectiveCommon)
            idx == RareIdx(char_counter, EffectiveCommon)
            total == Total(char_counter)
        IN  /\ Range(ra.rare_chars) = {char_counter[i] : i \in idx}
            /\ Len(ra.rare_chars) = Cardinality(idx)
            /\ ra.rare_type_count = Cardinality(idx)
            /\ ra.rare_char_count = SumCounts(char_counter, idx)
            /\ ra.rare_char_count
                 + SumCounts(char_counter, (1..Len(char_counter)) \ idx) = total
            /\ total > 0 => RMul(ra.rare_char_ratio, R(total)) = R(ra.rare_char_count)
            /\ total = 0 => ra.rare_char_ratio = R(0)
            /\ Len(char_counter) > 0 =>
                  RMul(ra.rare_type_ratio, R(Len(char_counter))) = R(ra.rare_type_count)
            /\ Len(char_counter) = 0 => ra.rare_type_ratio = R(0)

\* one common character and two rare ones of different counts
C11_Witness ==
    /\ result # <<>>
    /\ Len(char_counter) = 3
    /\ result[1].rare_analysis.rare_type_count = 2
    /\ result[1].rare_analysis.rare_char_count = 101
    /\ Total(char_counter) = 102

RECURSIVE SumRanks(_, _, _)
\* the ranks of the list entries at the positions idxs, added up
SumRanks(chars_list, idxs, char_order) ==
    IF idxs = {} THEN 0
    ELSE LET i == CHOOSE x \in idxs : TRUE
         IN  char_order[chars_list[i][1]] + SumRanks(chars_list, idxs \ {i}, char_order)

\* avg is the mean rank of the first k entries of the list that have a rank
IsMeanRank(avg, chars_list, k, char_order) ==
    LET mapped == {i \in 1..k : chars_list[i][1] \in DOMAIN char_order}
    IN  /\ avg = None <=> mapped = {}
        /\ mapped # {} =>
              RMul(avg, R(Cardinality(mapped))) = R(SumRanks(chars_list, mapped, char_order))

\* C12: the average rank is the arithmetic mean of the ranks of the list's
\* characters that are in the rank mapping, every entry weighing the same
\* whatever its count, characters without a rank ignored; it is the no-data
\* value exactly when no character of the list has a rank.
C12_AverageRank ==
    /\ calculate_avg_char_order(<<>>, dict_file) = None
    /\ result # <<>> =>
          LET r == result[1]
          IN  /\ IsMeanRank(r.avg_order_95, r.all_chars_by_freq,
                            CharsFor(r.cumulative_coverage, 95, 0), dict_file)
              /\ IsMeanRank(r.avg_order_99, r.all_chars_by_freq,
                            CharsFor(r.cumulative_coverage, 99, 0), dict_file)

\* the most frequent character has no rank, the second one has: no data for
\* 95 percent, a mean over one of two entries for 99 percent
C12_Witness ==
    /\ result # <<>>
    /\ CharsFor(result[1].cumulative_coverage, 95, 0) = 1
    /\ CharsFor(result[1].cumulative_coverage, 99, 0) = 2
    /\ result[1].avg_order_95 = None
    /\ result[1].avg_order_99 = R(2)

\* dim = (earned, weight, avg) is scored as an average-rank dimension
IsOrderScore(dim, lower, upper) ==
    LET earned == dim[1]
        weight == dim[2]
        avg == dim[3]
    IN  IF avg = None THEN RAdd(earned, earned) = weight
        ELSE IF RLe(avg, lower) THEN earned = R(0)
        ELSE IF RGe(avg, upper) THEN earned = weight
        ELSE earned = RMul(weight, RPow(RDiv(RSub(avg, lower), RSub(upper, lower)),
                                        cfg.ORDER_ACCELERATION))

\* C13: an average-rank dimension earns exactly weight / 2 on no data;
\* otherwise 0 at or below the lower bound, the weight at or above the upper
\* bound, and weight * ((avg - lower) / (upper - lower)) ^ order_acceleration
\* in between.
C13_OrderDimension ==
    rating # <<>> =>
        LET d == rating[1].out.score_details.dims
        IN  /\ d.order_95[2] = cfg.WEIGHT_ORDER_95
            /\ d.order_95[3] = rating[1].avg_order_95
            /\ IsOrderScore(d.order_95, cfg.ORDER_95_MIN, cfg.ORDER_95_MAX)
            /\ d.order_99[2] = cfg.WEIGHT_ORDER_99
            /\ d.order_99[3] = rating[1].avg_order_99
            /\ IsOrderScore(d.order_99, cfg.ORDER_99_MIN, cfg.ORDER_99_MAX)

\* exponent 2, the 95 percent average half way between the bounds (a quarter
\* of the weight), no data for 99 percent (half of the weight)
C13_Witness ==
    /\ rating # <<>>
    /\ cfg.ORDER_ACCELERATION = 2
    /\ cfg.ORDER_95_MIN = R(400) /\ cfg.ORDER_95_MAX = R(2000)
    /\ rating[1].avg_order_95 = R(1200)
    /\ rating[1].avg_order_99 = None
    /\ rating[1].out.score_details.dims.order_95 = <<Rat(25, 2), R(50), R(1200)>>
    /\ rating[1].out.score_details.dims.order_99 = <<R(15), R(30), None>>

\* the inputs of the call the state records
RatedCoverage ==
    <<rating[1].coverage_stats[Top500].coverage,
      rating[1].coverage_stats[Top1000].coverage,
      rating[1].coverage_stats[Top1500].coverage>>
RatedCounts == <<rating[1].cumulative_coverage[1][2], rating[1].cumulative_coverage[2][2]>>

\* the difficulty score of a further call under the same configuration
ScoreOf(cov, k, a95, a99, x) ==
    calculate_difficulty_rating(cfg, <<>>, 0,
        (Top500 :> [coverage |-> cov[1]]) @@ (Top1000 :> [coverage |-> cov[2]]) @@
        (Top1500 :> [coverage |-> cov[3]]),
        <<<<95, k[1], R(95)>>, <<99, k[2], R(99)>>>>, a95, a99, x).difficulty_score

CoverageInputs == {R(0), R(90), R(100)}
CountInputs == <<{k[1] : k \in CharCountValues}, {k[2] : k \in CharCountValues}>>

\* C14: a dimension of weight 0 earns 0 whatever its input, a no-data
\* average rank included, and two calls that differ only in the input of a
\* zero-weight dimension return the same difficulty score.
C14_ZeroWeightExcluded ==
    rating # <<>> =>
        LET r == rating[1]
            d == r.out.score_details.dims
            score == r.out.difficulty_score
            Same(s) == s = score
        IN  /\ \A dim \in {d.coverage_500, d.coverage_1000, d.coverage_1500, d.chars_95,
                           d.chars_99, d.order_95, d.order_99, d.char_types} :
                   dim[2] = R(0) => dim[1] = R(0)
            /\ \A i \in 1..3 :
                   d[<<"coverage_500", "coverage_1000", "coverage_1500">>[i]][2] = R(0) =>
                      \A v \in CoverageInputs :
                         Same(ScoreOf([RatedCoverage EXCEPT ![i] = v], RatedCounts,
                                      r.avg_order_95, r.avg_order_99, r.extra_char_types))
            /\ \A i \in 1..2 :
                   d[<<"chars_95", "chars_99">>[i]][2] = R(0) =>
                      \A v \in CountInputs[i] :
                         Same(ScoreOf(RatedCoverage, [RatedCounts EXCEPT ![i] = v],
                                      r.avg_order_95, r.avg_order_99, r.extra_char_types))
            /\ d.order_95[2] = R(0) =>
                  \A v \in AvgOrder95Values :
                     Same(ScoreOf(RatedCoverage, RatedCounts, v, r.avg_order_99,
                                  r.extra_char_types))
            /\ d.order_99[2] = R(0) =>
                  \A v \in AvgOrder99Values :
                     Same(ScoreOf(RatedCoverage, RatedCounts, r.avg_order_95, v,
                                  r.extra_char_types))
            /\ d.char_types[2] = R(0) =>
                  \A v \in ExtraTypeValues :
                     Same(ScoreOf(RatedCoverage, RatedCounts, r.avg_order_95,
                                  r.avg_order_99, v))

\* weight 0 on both average-rank dimensions and on coverage@1000, no data for
\* the 95 percent average, and a score that is not 0
C14_Witness ==
    /\ rating # <<>>
    /\ cfg.WEIGHT_ORDER_95 = R(0) /\ cfg.WEIGHT_COVERAGE_1000 = R(0)
    /\ cfg.WEIGHT_COVERAGE_500 = R(10)
    /\ rating[1].avg_order_95 = None
    /\ rating[1].avg_order_99 = R(5000)
    /\ rating[1].out.score_details.dims.order_95[1] = R(0)
    /\ rating[1].out.difficulty_score # R(0)

\* C19: in every score detail the earned score lies between 0 and the
\* dimension's configured weight, whichever branch of its formula applied.
C19_EarnedWithinWeight ==
    rating # <<>> =>
        LET d == rating[1].out.score_details.dims
        IN  /\ d.coverage_500[2] = cfg.WEIGHT_COVERAGE_500
            /\ d.coverage_1000[2] = cfg.WEIGHT_COVERAGE_1000
            /\ d.coverage_1500[2] = cfg.WEIGHT_COVERAGE_1500
            /\ d.chars_95[2] = cfg.WEIGHT_CHARS_95
            /\ d.chars_99[2] = cfg.WEIGHT_CHARS_99
            /\ d.order_95[2] = cfg.WEIGHT_ORDER_95
            /\ d.order_99[2] = cfg.WEIGHT_ORDER_99
            /\ d.char_types[2] = cfg.WEIGHT_CHAR_TYPES
            /\ \A dim \in {d.coverage_500, d.coverage_1000, d.coverage_1500, d.chars_95,
                           d.chars_99, d.order_95, d.order_99, d.char_types} :
                   RLe(R(0), dim[1]) /\ RLe(dim[1], dim[2])

\* linear mode: coverage 0 earns the whole weight, coverage 90 a part of it,
\* coverage 100 nothing; a count between its bounds and a no-data average
C19_Witness ==
    /\ rating # <<>>
    /\ cfg.COVERAGE_LINEAR_MODE
    /\ LET d == rating[1].out.score_details.dims
       IN  /\ d.coverage_500[3] = R(0) /\ d.coverage_500[1] = d.coverage_500[2]
           /\ d.coverage_500[2] # R(0)
           /\ d.coverage_1000[3] = R(90)
           /\ RLt(R(0), d.coverage_1000[1]) /\ RLt(d.coverage_1000[1], d.coverage_1000[2])
           /\ d.coverage_1500[3] = R(100) /\ d.coverage_1500[1] = R(0)
           /\ RLt(R(0), d.chars_95[1]) /\ RLt(d.chars_95[1], d.chars_95[2])
           /\ d.order_95[3] = None /\ RLt(R(0), d.order_95[1])

\* C20: everything else fixed, the difficulty score does not rise when one of
\* coverage@500, coverage@1000, coverage@1500 rises, and does not fall when
\* one of chars_for_95, chars_for_99, avg_order_95, avg_order_99 (data on
\* both sides) or extra_char_types rises.
C20_Monotone ==
    rating # <<>> =>
        LET r == rating[1]
            score == r.out.difficulty_score
        IN  /\ \A i \in 1..3 : \A v \in CoverageInputs :
                   RLt(RatedCoverage[i], v) =>
                      RLe(ScoreOf([RatedCoverage EXCEPT ![i] = v], RatedCounts,
                                  r.avg_order_95, r.avg_order_99, r.extra_char_types),
                          score)
            /\ \A i \in 1..2 : \A v \in CountInputs[i] :
                   RatedCounts[i] < v =>
                      RLe(score,
                          ScoreOf(RatedCoverage, [RatedCounts EXCEPT ![i] = v],
                                  r.avg_order_95, r.avg_order_99, r.extra_char_types))
            /\ \A v \in AvgOrder95Values \ {None} :
                   (r.avg_order_95 # None /\ RLt(r.avg_order_95, v)) =>
                      RLe(score, ScoreOf(RatedCoverage, RatedCounts, v, r.avg_order_99,
                                         r.extra_char_types))
            /\ \A v \in AvgOrder99Values \ {None} :
                   (r.avg_order_99 # None /\ RLt(r.avg_order_99, v)) =>
                      RLe(score, ScoreOf(RatedCoverage, RatedCounts, r.avg_order_95, v,
                                         r.extra_char_types))
            /\ \A v \in ExtraTypeValues :
                   r.extra_char_types < v =>
                      RLe(score, ScoreOf(RatedCoverage, RatedCounts, r.avg_order_95,
                                         r.avg_order_99, v))

\* a call in which every input can still rise: coverage 90, counts and
\* averages between their bounds, and a score strictly inside (0, 100)
C20_Witness ==
    /\ rating # <<>>
    /\ RatedCoverage = <<R(0), R(90), R(90)>>
    /\ RatedCounts = <<1400, 2200>>
    /\ rating[1].avg_order_95 = R(1200) /\ rating[1].avg_order_99 = R(1750)
    /\ rating[1].extra_char_types = 2250
    /\ cfg.WEIGHT_CHARS_95 # R(0) /\ cfg.WEIGHT_COVERAGE_500 # R(0)
    /\ RLt(R(0), rating[1].out.difficulty_score)
    /\ RLt(rating[1].out.difficulty_score, R(100))

\* the score clamped to [0, 100]
Clamped(score) == IF RLt(score, R(0)) THEN R(0) ELSE IF RLt(R(100), score) THEN R(100) ELSE score

\* C17: with c the score clamped to [0, 100], the display is floor(c / 10)
\* solid stars, then one hollow star exactly when floor(c / 5) is odd and
\* fewer than 10 solid stars are shown, and a single hollow star when that
\* would be empty; so it is never empty, has at most 10 solid stars and at
\* most one hollow star, and out-of-range scores display like 0 and 100.
C17_StarDisplay ==
    display # <<>> =>
        LET c == Clamped(display[1].score)
            stars == display[1].stars
            solid == c[1] \div (c[2] * 10)
            hollow == (c[1] \div (c[2] * 5)) % 2 = 1 /\ solid < 10
            expected == [i \in 1..solid |-> "solid"] \o
                        (IF hollow THEN <<"hollow">> ELSE <<>>)
        IN  /\ stars = IF expected = <<>> THEN <<"hollow">> ELSE expected
            /\ stars # <<>>
            /\ Cardinality({i \in 1..Len(stars) : stars[i] = "solid"}) <= 10
            /\ Cardinality({i \in 1..Len(stars) : stars[i] = "hollow"}) <= 1
            /\ RLt(display[1].score, R(0)) =>
                  stars = difficulty_score_to_star_display(R(0))
            /\ RLt(R(100), display[1].score) =>
                  stars = difficulty_score_to_star_display(R(100))

\* a score above 100 whose count of 5-point units is odd: ten solid stars
C17_Witness ==
    /\ display # <<>>
    /\ display[1].score = R(105)
    /\ display[1].stars = [i \in 1..10 |-> "solid"]

\* set is the reference set the construction rule gives for threshold n
IsReferenceSet(set, head, order, n) ==
    IF Len(head) = 0 THEN set = {c \in DOMAIN order : order[c] <= n}
    ELSE IF n <= Len(head) THEN set = {head[i] : i \in 1..n}
    ELSE LET others == DOMAIN order \ Range(head)
             fill == set \ Range(head)
             want == IF n - Len(head) <= Cardinality(others)
                     THEN n - Len(head) ELSE Cardinality(others)
         IN  /\ Range(head) \subseteq set
             /\ fill \subseteq others
             /\ Cardinality(fill) = want
             /\ \A a \in fill : \A b \in others \ fill : order[a] < order[b]

\* C18: without a head list the set for N is every character of rank <= N;
\* with one it is the first N head-list elements when N <= len(headList),
\* and otherwise the whole head list plus the first N - len(headList)
\* characters outside it in increasing rank, fewer if the mapping runs out.
C18_ReferenceSetConstruction ==
    pc # "menu" =>
        /\ DOMAIN EffectiveSets = stats_ranges
        /\ \A n \in stats_ranges :
              IsReferenceSet(EffectiveSets[n], reference_file, dict_file, n)

\* a head list naming one character twice: threshold 2 is that character,
\* threshold 3 adds one character by rank, threshold 4 exhausts the mapping
C18_Witness ==
    /\ pc = "batch"
    /\ Len(shared_reference_chars) = 2
    /\ Cardinality(Range(shared_reference_chars)) = 1
    /\ Cardinality(shared_reference_sets[2]) = 1
    /\ Cardinality(shared_reference_sets[3]) = 2
    /\ Cardinality(shared_reference_sets[4]) = 3

\* C15: in a batch the head list, the rank mapping, the common-character set
\* and the reference sets are what the preload built from the two files, and
\* no document processed afterwards changes any of them, with a head list
\* and in the rank-only fallback.
C15_SharedDataUnchanged ==
    /\ [](pc = "batch" =>
            /\ shared_reference_chars = reference_file
            /\ shared_char_order = dict_file
            /\ shared_common_chars = load_common_chars(reference_file, dict_file)
            /\ shared_reference_sets =
                 precompute_reference_sets(reference_file, dict_file, stats_ranges))
    /\ [][pc = "batch" =>
             UNCHANGED <<shared_reference_chars, shared_char_order,
                         shared_common_chars, shared_reference_sets>>]_vars

\* a book with a character outside the common set has been processed in the
\* fallback, the loop still running
C15_Witness ==
    /\ pc = "batch"
    /\ result # <<>>
    /\ Len(shared_reference_chars) = 0
    /\ shared_reference_sets[MaxTopN] # {}
    /\ result[1].rare_analysis.rare_type_count > 0

\* process_file on another document, with the reference data of this run
RunAgain(doc) ==
    IF shared_reference_sets # <<>>
    THEN process_file(cfg, doc, shared_reference_chars, shared_char_order,
                      shared_common_chars, shared_reference_sets)
    ELSE process_file(cfg, doc, reference_file, dict_file,
                      load_common_chars(reference_file, dict_file), <<>>)

\* the difficulty result of a run: score, star string, dimension details
DifficultyResult(res) == <<res[1].difficulty_score, res[1].stars, res[1].score_details>>

\* the documents with the character->count mapping of doc
SameMapping(doc) == {d \in Documents : Len(d) = Len(doc) /\ Range(d) = Range(doc)}

\* d lists the characters of equal count in the relative order doc met them
SameTieOrder(doc, d) ==
    LET Pos(e) == CHOOSE k \in 1..Len(d) : d[k] = e
    IN  \A i, j \in 1..Len(doc) :
            (i < j /\ doc[i][2] = doc[j][2]) => Pos(doc[i]) < Pos(doc[j])

\* C16 as stated: two runs on the same character->count mapping, reference
\* data and configuration give the same difficulty score, star string and
\* dimension details.
C16_SameMappingSameResult ==
    result # <<>> =>
        \A d \in SameMapping(char_counter) :
            DifficultyResult(RunAgain(d)) = DifficultyResult(result)

\* C16, amended: two runs give the same difficulty score, star string and
\* dimension details when the tables hold the same character->count mapping
\* and met the characters of equal count in the same relative order.
C16_SameTableSameResult ==
    result # <<>> =>
        \A d \in SameMapping(char_counter) :
            SameTieOrder(char_counter, d) =>
                DifficultyResult(RunAgain(d)) = DifficultyResult(result)

\* a table of three characters, the frequent one met between two of equal
\* count, so that other tables with the same tie order exist
C16_Witness ==
    /\ result # <<>>
    /\ Len(char_counter) = 3
    /\ char_counter[1][2] = 1 /\ char_counter[2][2] = 100 /\ char_counter[3][2] = 1
    /\ \E d \in SameMapping(char_counter) :
          d # char_counter /\ SameTieOrder(char_counter, d)
    /\ result[1].avg_order_99 # None

---------------------------------------------------------------------------
(* Coverage dimensions, linear mode *)

\* the dimensions of the recorded call, repeated under configuration c
DimsUnder(c) ==
    calculate_difficulty_rating(c, <<>>, 0, rating[1].coverage_stats,
        rating[1].cumulative_coverage, rating[1].avg_order_95,
        rating[1].avg_order_99, rating[1].extra_char_types).score_details.dims

\* cfg with other coverage intervals
CoverageIntervals(c, lower, upper) ==
    [c EXCEPT !.COVERAGE_500_MIN = lower, !.COVERAGE_500_MAX = upper,
              !.COVERAGE_1000_MIN = lower, !.COVERAGE_1000_MAX = upper,
              !.COVERAGE_1500_MIN = lower, !.COVERAGE_1500_MAX = upper]

IsLinearCoverage(dim, weight, coverage) ==
    /\ dim[2] = weight
    /\ dim[3] = coverage
    /\ dim[1] = RMul(weight, RPow(RDiv(RSub(R(100), coverage), R(100)),
                                  cfg.COVERAGE_ACCELERATION))
    /\ coverage = R(0) => dim[1] = weight
    /\ coverage = R(100) => dim[1] = R(0)

\* C21: in linear coverage mode each coverage dimension earns
\* weight * ((100 - coverage) / 100) ^ coverage_acceleration: the whole weight
\* at coverage 0 and nothing at coverage 100, whatever the exponent; and the
\* same call under other interval bounds earns the same.
C21_LinearCoverage ==
    (rating # <<>> /\ cfg.COVERAGE_LINEAR_MODE) =>
        LET d == rating[1].out.score_details.dims
        IN  /\ IsLinearCoverage(d.coverage_500, cfg.WEIGHT_COVERAGE_500, RatedCoverage[1])
            /\ IsLinearCoverage(d.coverage_1000, cfg.WEIGHT_COVERAGE_1000, RatedCoverage[2])
            /\ IsLinearCoverage(d.coverage_1500, cfg.WEIGHT_COVERAGE_1500, RatedCoverage[3])
            /\ \A b \in {<<R(0), R(0)>>, <<R(50), R(95)>>, <<R(100), R(100)>>} :
                  LET e == DimsUnder(CoverageIntervals(cfg, b[1], b[2]))
                  IN  /\ e.coverage_500 = d.coverage_500
                      /\ e.coverage_1000 = d.coverage_1000
                      /\ e.coverage_1500 = d.coverage_1500

\* linear mode with exponent 2 and the source's weights: coverage 0 earns the
\* 10 points, coverage 90 earns 10 * 0.1 ^ 2, coverage 100 earns nothing
C21_Witness ==
    /\ rating # <<>>
    /\ cfg.COVERAGE_LINEAR_MODE
    /\ cfg.COVERAGE_ACCELERATION = 2
    /\ RatedCoverage = <<R(0), R(90), R(100)>>
    /\ rating[1].out.score_details.dims.coverage_500[1] = R(10)
    /\ rating[1].out.score_details.dims.coverage_1000[1] = Rat(1, 10)
    /\ cfg.WEIGHT_COVERAGE_1500 = R(20)
    /\ rating[1].out.score_details.dims.coverage_1500[1] = R(0)

---------------------------------------------------------------------------
(* Coverage dimensions, interval mode *)

IsIntervalCoverage(dim, weight, lower, upper, coverage) ==
    /\ dim[2] = weight
    /\ dim[3] = coverage
    /\ IF RGe(coverage, upper) THEN dim[1] = R(0)
       ELSE IF RLe(coverage, lower) THEN dim[1] = weight
       ELSE dim[1] = RMul(weight, RPow(RDiv(RSub(upper, coverage), RSub(upper, lower)),
                                       cfg.COVERAGE_ACCELERATION))

\* C22: in interval mode a coverage dimension earns nothing at or above its
\* upper bound, its whole weight at or below its lower bound, and
\* weight * ((upper - coverage) / (upper - lower)) ^ coverage_acceleration in
\* between, each dimension with its own bounds and weight.
C22_IntervalCoverage ==
    (rating # <<>> /\ ~cfg.COVERAGE_LINEAR_MODE) =>
        LET d == rating[1].out.score_details.dims
        IN  /\ IsIntervalCoverage(d.coverage_500, cfg.WEIGHT_COVERAGE_500,
                   cfg.COVERAGE_500_MIN, cfg.COVERAGE_500_MAX, RatedCoverage[1])
            /\ IsIntervalCoverage(d.coverage_1000, cfg.WEIGHT_COVERAGE_1000,
                   cfg.COVERAGE_1000_MIN, cfg.COVERAGE_1000_MAX, RatedCoverage[2])
            /\ IsIntervalCoverage(d.coverage_1500, cfg.WEIGHT_COVERAGE_1500,
                   cfg.COVERAGE_1500_MIN, cfg.COVERAGE_1500_MAX, RatedCoverage[3])

\* interval mode with exponent 2: coverage 0 is below [65, 92], coverage 90 is
\* inside [80, 98] and earns 10 * (8 / 18) ^ 2, coverage 100 is above [88, 99.5]
C22_Witness ==
    /\ rating # <<>>
    /\ ~cfg.COVERAGE_LINEAR_MODE
    /\ cfg.COVERAGE_ACCELERATION = 2
    /\ <<cfg.COVERAGE_1000_MIN, cfg.COVERAGE_1000_MAX>> = <<R(80), R(98)>>
    /\ RatedCoverage = <<R(0), R(90), R(100)>>
    /\ rating[1].out.score_details.dims.coverage_500[1] = R(10)
    /\ rating[1].out.score_details.dims.coverage_1000[1] = Rat(160, 81)
    /\ cfg.WEIGHT_COVERAGE_1500 = R(20)
    /\ rating[1].out.score_details.dims.coverage_1500[1] = R(0)

---------------------------------------------------------------------------
(* Required-character and character-type dimensions *)

IsLinearScore(dim, weight, lower, upper, value) ==
    /\ dim[2] = weight
    /\ dim[3] = value
    /\ IF RLe(value, lower) THEN dim[1] = R(0)
       ELSE IF RGe(value, upper) THEN dim[1] = weight
       ELSE dim[1] = RDiv(RMul(weight, RSub(value, lower)), RSub(upper, lower))

\* C23: chars_95, chars_99 and char_types earn nothing at or below the lower
\* bound, the weight at or above the upper bound, and
\* weight * (value - lower) / (upper - lower) in between; the same call with
\* both acceleration exponents set to 1 earns the same on the three.
C23_LinearDimensions ==
    rating # <<>> =>
        LET d == rating[1].out.score_details.dims
            e == DimsUnder([cfg EXCEPT !.COVERAGE_ACCELERATION = 1,
                                       !.ORDER_ACCELERATION = 1])
        IN  /\ IsLinearScore(d.chars_95, cfg.WEIGHT_CHARS_95, cfg.CHARS_95_MIN,
                             cfg.CHARS_95_MAX, R(RatedCounts[1]))
            /\ IsLinearScore(d.chars_99, cfg.WEIGHT_CHARS_99, cfg.CHARS_99_MIN,
                             cfg.CHARS_99_MAX, R(RatedCounts[2]))
            /\ IsLinearScore(d.char_types, cfg.WEIGHT_CHAR_TYPES, cfg.CHAR_TYPES_MIN,
                             cfg.CHAR_TYPES_MAX, R(rating[1].extra_char_types))
            /\ e.chars_95 = d.chars_95
            /\ e.chars_99 = d.chars_99
            /\ e.char_types = d.char_types

\* weights 4, 5 and 8 under exponent 2 for the average ranks: 1400 is half way
\* through [300, 2500], 5000 is above [400, 4000], 2250 is half way through
\* [0, 4500]
C23_Witness ==
    /\ rating # <<>>
    /\ cfg.ORDER_ACCELERATION = 2
    /\ <<cfg.CHARS_95_MIN, cfg.CHARS_95_MAX>> = <<R(300), R(2500)>>
    /\ RatedCounts = <<1400, 5000>>
    /\ rating[1].extra_char_types = 2250
    /\ rating[1].out.score_details.dims.chars_95 = <<R(2), R(4), R(1400)>>
    /\ rating[1].out.score_details.dims.chars_99 = <<R(5), R(5), R(5000)>>
    /\ rating[1].out.score_details.dims.char_types = <<R(4), R(8), R(2250)>>

---------------------------------------------------------------------------
(* Division by zero *)

\* the interpolation branch of a dimension is entered with lower < value < upper
InsideOnly(dim, weight, lower, upper) ==
    (dim[1] # R(0) /\ dim[1] # weight /\ dim[3] # None) =>
        (RLt(lower, dim[3]) /\ RLt(dim[3], upper))

\* C24: calculate_difficulty_rating raises no ZeroDivisionError under any
\* configuration, intervals with lower = upper or lower > upper and a zero
\* total weight included: a dimension earns something other than 0 and its
\* weight only strictly inside its interval, and a total weight of 0 gives
\* the score 0.
C24_NoDivisionByZero ==
    rating # <<>> =>
        /\ rating[1].out.difficulty_score # ZeroDivisionError
        /\ LET d == rating[1].out.score_details.dims
           IN  /\ ~cfg.COVERAGE_LINEAR_MODE =>
                     /\ InsideOnly(d.coverage_500, cfg.WEIGHT_COVERAGE_500,
                                   cfg.COVERAGE_500_MIN, cfg.COVERAGE_500_MAX)
                     /\ InsideOnly(d.coverage_1000, cfg.WEIGHT_COVERAGE_1000,
                                   cfg.COVERAGE_1000_MIN, cfg.COVERAGE_1000_MAX)
                     /\ InsideOnly(d.coverage_1500, cfg.WEIGHT_COVERAGE_1500,
                                   cfg.COVERAGE_1500_MIN, cfg.COVERAGE_1500_MAX)
               /\ InsideOnly(d.chars_95, cfg.WEIGHT_CHARS_95,
                             cfg.CHARS_95_MIN, cfg.CHARS_95_MAX)
               /\ InsideOnly(d.chars_99, cfg.WEIGHT_CHARS_99,
                             cfg.CHARS_99_MIN, cfg.CHARS_99_MAX)
               /\ InsideOnly(d.char_types, cfg.WEIGHT_CHAR_TYPES,
                             cfg.CHAR_TYPES_MIN, cfg.CHAR_TYPES_MAX)
        /\ rating[1].out.score_details.total_weight = R(0) =>
              rating[1].out.difficulty_score = R(0)

\* intervals turned round with every value between the two bounds, and all
\* weights 0: the call returns the score 0
C24_Witness ==
    /\ rating # <<>>
    /\ RLt(cfg.ORDER_95_MAX, cfg.ORDER_95_MIN)
    /\ rating[1].avg_order_95 # None
    /\ RLt(cfg.ORDER_95_MAX, rating[1].avg_order_95)
    /\ RLt(rating[1].avg_order_95, cfg.ORDER_95_MIN)
    /\ RLt(cfg.CHARS_95_MAX, R(RatedCounts[1])) /\ RLt(R(RatedCounts[1]), cfg.CHARS_95_MIN)
    /\ ~cfg.COVERAGE_LINEAR_MODE
    /\ RLt(cfg.COVERAGE_1000_MAX, RatedCoverage[2])
    /\ RLt(RatedCoverage[2], cfg.COVERAGE_1000_MIN)
    /\ rating[1].out.difficulty_score # ZeroDivisionError
    /\ rating[1].out.score_details.total_weight = R(0)
    /\ rating[1].out.difficulty_score = R(0)

---------------------------------------------------------------------------
(* Star level *)

\* the configured star thresholds
STAR_THRESHOLD_1 == 20
STAR_THRESHOLD_2 == 40
STAR_THRESHOLD_3 == 60
STAR_THRESHOLD_4 == 80

\* the level the thresholds' comments assign to a score
StarLevel(score) ==
    IF RLt(score, R(STAR_THRESHOLD_1)) THEN 1
    ELSE IF RLt(score, R(STAR_THRESHOLD_2)) THEN 2
    ELSE IF RLt(score, R(STAR_THRESHOLD_3)) THEN 3
    ELSE IF RLt(score, R(STAR_THRESHOLD_4)) THEN 4
    ELSE 5

\* C25: the stars calculate_difficulty_rating returns are one to five stars,
\* as many as the configured thresholds 20, 40, 60 and 80 give the score.
C25_FiveStarScale ==
    rating # <<>> =>
        rating[1].out.stars =
            [i \in 1..StarLevel(rating[1].out.difficulty_score) |-> "solid"]

---------------------------------------------------------------------------
(* File names and book names (db_uploader.parse_book_info_from_filename)

   A file name is a sequence of symbols: "1", "2" are digits, "shu" and
   "meng" two Chinese characters, "a" a Latin letter, ".txt" the extension
   and "_zipin_nandu" the marker '_字频统计_难度' of a result file. *)

Digits == {"1", "2"}
Whitespace == {" "}
\* the class [\d\s\.。_\-] of the numbering prefix (the ideographic full stop
\* is left out: no file name of the model has one)
PrefixSymbols == Digits \cup Whitespace \cup {".", "_", "-"}
\* '一' <= char <= '鿿'
Chinese == {"shu", "meng"}

\* os.path.splitext(filename)[0]
SplitExt(filename) ==
    IF filename # <<>> /\ filename[Len(filename)] = ".txt"
    THEN SubSeq(filename, 1, Len(filename) - 1)
    ELSE filename

RECURSIVE StripLeft(_, _)
StripLeft(name, symbols) ==
    IF name # <<>> /\ Head(name) \in symbols THEN StripLeft(Tail(name), symbols)
    ELSE name

RECURSIVE StripRight(_, _)
StripRight(name, symbols) ==
    IF name # <<>> /\ name[Len(name)] \in symbols
    THEN StripRight(SubSeq(name, 1, Len(name) - 1), symbols)
    ELSE name

\* str.strip()
Strip(name) == StripRight(StripLeft(name, Whitespace), Whitespace)

\* author None
NoAuthor == <<>>

\* returns (book name, None)
parse_book_info_from_filename(filename) ==
    <<Strip(StripLeft(SplitExt(filename), PrefixSymbols)), NoAuthor>>

\* any('一' <= char <= '鿿' for char in book_name)
HasChinese(book_name) == \E i \in 1..Len(book_name) : book_name[i] \in Chinese

\* the txt files of the books directory, in the order of their base names
AllFiles ==
    <<<<"1", "_", ".txt">>, <<"1", "_", "shu", ".txt">>, <<"2", "_", "shu", ".txt">>,
      <<"a", ".txt">>, <<"shu", ".txt">>, <<"shu", "meng", ".txt">>>>
Filenames == Range(AllFiles)

---------------------------------------------------------------------------
(* db_uploader.handle_database_upload

   A connection is a positive number; db_conn = None is NoConnection.  A
   configuration is <<>> (None) or <<dict>>; prepared data and the cache of
   existing books likewise.  env holds what the call reads from outside:
   the configuration file, whether the server accepts a connection and its
   statements, the handle a new connection gets, the table's rows and the
   user's answers at the prompts. *)

NoConnection == 0

placeholder_values == {"your_username", "your_password", "your_database"}

\* the configuration from the template, and one filled in
TemplateConfig == [user |-> "your_username", password |-> "your_password", database |-> "your_database"]
FilledConfig == [user |-> "root", password |-> "secret", database |-> "books"]
\* what load_db_config can return
ConfigFiles == {<<>>, <<TemplateConfig>>, <<FilledConfig>>}

is_db_config_valid(config) ==
    /\ config # <<>>
    /\ config[1].user \notin placeholder_values
    /\ config[1].password \notin placeholder_values
    /\ config[1].database \notin placeholder_values

\* (book_name, author if author else None)
BookKey(book_name, author) == <<book_name, author>>

\* SELECT COUNT(*) ... > 0; False when the statement raises
check_book_exists(env, book_name, author) ==
    env.sql_ok /\ BookKey(book_name, author) \in env.rows

prepare_upload_data(book_name, author, selected_file, total_chars) ==
    [book_name |-> book_name, author |-> author, file_name |-> selected_file,
     total_chars |-> total_chars]

\* what a call did: the value returned, the connection it opened, the
\* connections it closed and the statements it executed
Returned(ret, opened, closed, sql) ==
    [ret |-> ret, opened |-> opened, closed |-> closed, sql |-> sql]

\* "if need_close: db_conn.close()"
CloseOwn(c) == IF c.need_close THEN {c.db_conn} ELSE {}

\* "ret_conn = db_conn if not need_close else None"
RetConn(c) == IF c.need_close THEN NoConnection ELSE c.db_conn

\* from "data = prepare_upload_data(" to the end
StoreData(c, book_name, author, book_exists, sql) ==
    LET data == prepare_upload_data(book_name, author, c.selected_file, c.total_chars)
    IN  IF c.total_chars < 300
        THEN Returned(IF c.batch_mode THEN <<FALSE, RetConn(c), <<>>, FALSE>>
                      ELSE <<FALSE, RetConn(c)>>,
                      c.opened, CloseOwn(c), sql)
        ELSE IF c.batch_mode
        THEN Returned(<<TRUE, RetConn(c), <<data>>, book_exists>>, c.opened, {}, sql)
        ELSE LET statement == <<IF book_exists THEN "UPDATE" ELSE "INSERT",
                                BookKey(book_name, author)>>
             IN  Returned(<<c.env.sql_ok, RetConn(c)>>, c.opened, CloseOwn(c),
                          Append(sql, statement))

\* "if not batch_mode:" the recognised name is shown and may be replaced
ConfirmBook(c, book_name, author, book_exists, sql) ==
    IF c.batch_mode THEN StoreData(c, book_name, author, book_exists, sql)
    ELSE IF c.env.confirm = "s"
    THEN Returned(<<FALSE, NoConnection>>, c.opened, CloseOwn(c), sql)
    ELSE IF c.env.confirm = "n"
    THEN LET name == c.env.retyped_name
             writer == c.env.retyped_author
             again == Append(sql, <<"SELECT", BookKey(name, writer)>>)
             book_exists_again == check_book_exists(c.env, name, writer)
         IN  IF name = <<>>
             THEN Returned(<<FALSE, NoConnection>>, c.opened, CloseOwn(c), sql)
             ELSE IF book_exists_again /\ c.env.overwrite_again # "y"
             THEN Returned(<<FALSE, NoConnection>>, c.opened, CloseOwn(c), again)
             ELSE StoreData(c, name, writer, book_exists \/ book_exists_again, again)
    ELSE StoreData(c, book_name, author, book_exists, sql)

\* the duplicate check, from the cache or from the table
CheckDuplicate(c, book_name, author) ==
    LET cached == c.batch_mode /\ c.existing_books # <<>>
        book_exists == IF cached
                       THEN BookKey(book_name, author) \in c.existing_books[1]
                       ELSE check_book_exists(c.env, book_name, author)
        sql == IF cached THEN <<>> ELSE <<<<"SELECT", BookKey(book_name, author)>>>>
    IN  IF book_exists /\ ~c.batch_mode /\ c.env.overwrite # "y"
        THEN Returned(<<FALSE, NoConnection>>, c.opened, CloseOwn(c), sql)
        ELSE ConfirmBook(c, book_name, author, book_exists, sql)

\* from the parsing of the file name to a valid book name
ResolveBookName(c) ==
    LET parsed == parse_book_info_from_filename(c.selected_file)
        book_name == parsed[1]
        author == parsed[2]
    IN  IF book_name = <<>> \/ Len(Strip(book_name)) = 0
        THEN Returned(IF c.batch_mode THEN <<FALSE, RetConn(c), <<>>, FALSE>>
                      ELSE <<FALSE, RetConn(c)>>, c.opened, {}, <<>>)
        ELSE IF ~HasChinese(book_name)
        THEN IF c.batch_mode
             THEN Returned(<<FALSE, RetConn(c), <<>>, FALSE>>, c.opened, {}, <<>>)
             ELSE IF c.env.manual_input # "y"
             THEN Returned(<<FALSE, RetConn(c)>>, c.opened, {}, <<>>)
             ELSE IF c.env.typed_name = <<>> \/ ~HasChinese(c.env.typed_name)
             THEN Returned(<<FALSE, NoConnection>>, c.opened, CloseOwn(c), <<>>)
             ELSE CheckDuplicate(c, c.env.typed_name, c.env.typed_author)
        ELSE CheckDuplicate(c, book_name, author)

\* "return False, None, None, False if batch_mode else (False, None)": the
\* conditional expression is the fourth element of the tuple
EarlyReturn(batch_mode) ==
    Returned(<<FALSE, NoConnection, <<>>,
               IF batch_mode THEN FALSE ELSE <<FALSE, NoConnection>>>>,
             NoConnection, {}, <<>>)

handle_database_upload(selected_file, total_chars, batch_mode, db_conn, db_config, existing_books, env) ==
    LET config == IF db_config = <<>> THEN env.config_file ELSE db_config
    IN  IF config = <<>> THEN EarlyReturn(batch_mode)
        ELSE IF ~is_db_config_valid(config) THEN EarlyReturn(batch_mode)
        ELSE IF db_conn = NoConnection /\ ~env.connect_ok THEN EarlyReturn(batch_mode)
        ELSE LET need_close == db_conn = NoConnection
             IN  ResolveBookName(
                     [selected_file |-> selected_file, total_chars |-> total_chars,
                      batch_mode |-> batch_mode, existing_books |-> existing_books,
                      need_close |-> need_close,
                      db_conn |-> IF need_close THEN env.new_conn ELSE db_conn,
                      opened |-> IF need_close THEN env.new_conn ELSE NoConnection,
                      env |-> env])

---------------------------------------------------------------------------
(* handle_database_upload on its own, over its arguments and surroundings *)

\* the analysis part of the state, at rest
NoAnalysis ==
    /\ cfg = SourceConfig
    /\ reference_file = <<>>
    /\ dict_file = <<>>
    /\ shared_reference_chars = <<>>
    /\ shared_char_order = <<>>
    /\ shared_common_chars = {}
    /\ shared_reference_sets = <<>>
    /\ char_counter = <<>>
    /\ result = <<>>
    /\ rating = <<>>
    /\ display = <<>>

\* rows of book_difficulty, as (book_name, author) keys
TableRows ==
    {{}, {BookKey(<<"shu">>, NoAuthor)}, {BookKey(<<"meng">>, <<"cao">>)}}

\* total_chars on either side of the 300 needed for an upload
CharTotals == {299, 300}

\* answers typed at the prompts of the single-file mode
Answers ==
    [manual_input : {"y", "n"}, typed_name : {<<>>, <<"shu">>, <<"a">>},
     typed_author : {NoAuthor, <<"cao">>}, overwrite : {"y", ""},
     confirm : {"y", "n", "s"}, retyped_name : {<<>>, <<"meng">>},
     retyped_author : {<<"cao">>}, overwrite_again : {"y", "n"}]

\* the batch mode asks nothing
NoAnswers ==
    [manual_input |-> "n", typed_name |-> <<>>, typed_author |-> NoAuthor,
     overwrite |-> "", confirm |-> "s", retyped_name |-> <<>>,
     retyped_author |-> NoAuthor, overwrite_again |-> "n"]

\* the surroundings of one call
Env(config_file, connect_ok, sql_ok, answers) ==
    [config_file |-> config_file, connect_ok |-> connect_ok, sql_ok |-> sql_ok,
     new_conn |-> db.opened + 1, rows |-> db.rows,
     manual_input |-> answers.manual_input, typed_name |-> answers.typed_name,
     typed_author |-> answers.typed_author, overwrite |-> answers.overwrite,
     confirm |-> answers.confirm, retyped_name |-> answers.retyped_name,
     retyped_author |-> answers.retyped_author,
     overwrite_again |-> answers.overwrite_again]

\* the rows after the statements of a call: an INSERT that succeeded adds its row
RowsAfter(rows, sql, sql_ok) ==
    rows \cup {sql[i][2] : i \in {j \in 1..Len(sql) : sql_ok /\ sql[j][1] = "INSERT"}}

\* the server after a call that opened and closed connections and ran statements
ServerAfter(out, sql_ok) ==
    [db EXCEPT !.opened = IF out.opened # NoConnection THEN out.opened ELSE @,
               !.closed = @ \cup out.closed,
               !.rows = RowsAfter(@, out.sql, sql_ok)]

\* connection 1 is the caller's
InitUpload ==
    /\ pc = "upload"
    /\ NoAnalysis
    /\ db \in {[rows |-> r, opened |-> 1, closed |-> {}, inserted |-> <<>>,
                updated |-> <<>>] : r \in TableRows}
    /\ batch = <<>>
    /\ upload = <<>>
    /\ output_folder = {}
    /\ scan = <<>>

CallUpload ==
    /\ pc = "upload"
    /\ \E selected_file \in Filenames, total_chars \in CharTotals, batch_mode \in BOOLEAN,
          db_conn \in {NoConnection, 1}, db_config \in ConfigFiles,
          config_file \in ConfigFiles, connect_ok \in BOOLEAN, sql_ok \in BOOLEAN :
          \E existing_books \in IF batch_mode
                                THEN {<<>>, <<{}>>, <<{BookKey(<<"shu">>, NoAuthor)}>>}
                                ELSE {<<>>},
             answers \in IF batch_mode THEN {NoAnswers} ELSE Answers :
             LET out == handle_database_upload(selected_file, total_chars, batch_mode,
                            db_conn, db_config, existing_books,
                            Env(config_file, connect_ok, sql_ok, answers))
             IN  /\ upload' = <<[selected_file |-> selected_file,
                                 batch_mode |-> batch_mode, db_conn |-> db_conn,
                                 out |-> out]>>
                 /\ db' = ServerAfter(out, sql_ok)
    /\ pc' = "returned"
    /\ UNCHANGED analysis_vars
    /\ UNCHANGED <<batch, output_folder, scan>>

NextUpload == CallUpload

SpecUpload == InitUpload /\ [][NextUpload]_vars

---------------------------------------------------------------------------
(* Shape of the returned tuple *)

\* C26: handle_database_upload returns a 2-tuple (success, conn) on every path
\* when batch_mode is False and a 4-tuple (success, conn, prepared_data,
\* is_update) on every path when batch_mode is True.
C26_TupleShape ==
    upload # <<>> =>
        Len(upload[1].out.ret) = IF upload[1].batch_mode THEN 4 ELSE 2

---------------------------------------------------------------------------
(* Connections the call opens *)

\* C29: a connection handle_database_upload opened itself is closed before
\* the return and is not returned; a connection passed in is never closed.
C29_OwnConnectionClosed ==
    upload # <<>> =>
        LET u == upload[1]
        IN  /\ u.out.opened # NoConnection =>
                  /\ u.out.opened \in u.out.closed
                  /\ u.out.ret[2] # u.out.opened
            /\ u.db_conn # NoConnection => u.db_conn \notin u.out.closed

---------------------------------------------------------------------------
(* The 'all' branch of feature_book_statistics with the database upload *)

\* most books of one batch run
MaxFiles == 3

\* "batch_threshold = 10", scaled to the batch
batch_threshold == 2

\* files_to_process: the books without a result, in the order of txt_files_sorted
FileLists ==
    {list \in UNION {[1..n -> 1..Len(AllFiles)] : n \in 1..MaxFiles} :
        \A i, j \in 1..Len(list) : i < j => list[i] < list[j]}

RECURSIVE DataKeys(_)
\* the (book_name, author) keys of a list of prepared data
DataKeys(data_list) ==
    IF data_list = <<>> THEN {}
    ELSE {BookKey(Head(data_list).book_name, Head(data_list).author)}
             \cup DataKeys(Tail(data_list))

\* flush_pending_data on server s and loop locals b: the pending lists are
\* handed to batch_insert_books and batch_update_books and emptied
flush_pending_data(s, b, sql_ok) ==
    [server |-> [s EXCEPT !.inserted = @ \o b.pending_inserts,
                          !.updated = @ \o b.pending_updates,
                          !.rows = IF sql_ok THEN @ \cup DataKeys(b.pending_inserts)
                                   ELSE @],
     locals |-> [b EXCEPT !.pending_inserts = <<>>, !.pending_updates = <<>>]]

InitBatchUpload ==
    /\ pc = "all"
    /\ NoAnalysis
    /\ db \in {[rows |-> r, opened |-> 0, closed |-> {}, inserted |-> <<>>,
                updated |-> <<>>] : r \in TableRows}
    /\ batch \in {[DB_UPLOAD_AVAILABLE |-> a,
                   files_to_process |-> [i \in 1..Len(list) |-> AllFiles[list[i]]],
                   db_conn |-> NoConnection, db_config |-> <<>>,
                   existing_books |-> <<>>,
                   pending_inserts |-> <<>>, pending_updates |-> <<>>,
                   summary_results |-> <<>>,
                   upload_success_count |-> 0, upload_skip_count |-> 0] :
                  a \in BOOLEAN, list \in FileLists}
    /\ upload = <<>>
    /\ output_folder = {}
    /\ scan = <<>>

\* "if DB_UPLOAD_AVAILABLE:" configuration, connection and cache of the batch
ConnectDatabase ==
    /\ pc = "all"
    /\ \E config_file \in ConfigFiles, connect_ok \in BOOLEAN, sql_ok \in BOOLEAN :
          IF ~batch.DB_UPLOAD_AVAILABLE
          THEN UNCHANGED <<db, batch>>
          ELSE IF ~is_db_config_valid(config_file)
          THEN /\ batch' = [batch EXCEPT !.db_config = config_file]
               /\ UNCHANGED db
          ELSE IF ~connect_ok
          THEN /\ batch' = [batch EXCEPT !.db_config = config_file]
               /\ UNCHANGED db
          ELSE /\ batch' = [batch EXCEPT
                               !.db_config = config_file,
                               !.db_conn = db.opened + 1,
                               \* load_existing_books: {} when the SELECT raises
                               !.existing_books = <<IF sql_ok THEN db.rows ELSE {}>>]
               /\ db' = [db EXCEPT !.opened = @ + 1]
    /\ pc' = "loop"
    /\ UNCHANGED analysis_vars
    /\ UNCHANGED <<upload, output_folder, scan>>

\* the dict process_file returns in batch mode, reduced to its upload entries
UploadResult(filename, upload_success, returned_conn, prepared_data, is_update) ==
    [filename |-> filename, upload_success |-> upload_success,
     db_conn |-> returned_conn, db_prepared_data |-> prepared_data,
     db_is_update |-> is_update]

\* the loop locals after a result: pending lists, connection, counters
Collect(b, r) ==
    [b EXCEPT
        !.summary_results = Append(@, r),
        !.pending_inserts = IF r.db_prepared_data # <<>> /\ ~r.db_is_update
                            THEN Append(@, r.db_prepared_data[1]) ELSE @,
        !.pending_updates = IF r.db_prepared_data # <<>> /\ r.db_is_update
                            THEN Append(@, r.db_prepared_data[1]) ELSE @,
        !.db_conn = IF r.db_conn # NoConnection THEN r.db_conn ELSE @,
        !.upload_success_count = IF r.upload_success THEN @ + 1 ELSE @,
        !.upload_skip_count = IF r.upload_success THEN @ ELSE @ + 1,
        !.files_to_process = Tail(@)]

\* "if total_pending >= batch_threshold and db_conn:"
FlushAtThreshold(s, b, sql_ok) ==
    IF Len(b.pending_inserts) + Len(b.pending_updates) >= batch_threshold
       /\ b.db_conn # NoConnection
    THEN flush_pending_data(s, b, sql_ok)
    ELSE [server |-> s, locals |-> b]

\* one pass of the loop: process_file with its upload step, then the staging
\* of the prepared data and the flush at the threshold
ProcessBook ==
    /\ pc = "loop"
    /\ batch.files_to_process # <<>>
    /\ \E total_chars \in {0} \cup CharTotals, config_file \in ConfigFiles,
          connect_ok \in BOOLEAN, sql_ok \in BOOLEAN :
          LET file_path == Head(batch.files_to_process)
              out == handle_database_upload(file_path, total_chars, TRUE,
                         batch.db_conn, batch.db_config, batch.existing_books,
                         Env(config_file, connect_ok, sql_ok, NoAnswers))
              returned == UploadResult(file_path, out.ret[1],
                              IF out.ret[2] # NoConnection THEN out.ret[2]
                              ELSE batch.db_conn,
                              out.ret[3], out.ret[4])
              skipped == UploadResult(file_path, FALSE, NoConnection, <<>>, FALSE)
          IN  IF total_chars = 0
              \* process_file returned None
              THEN /\ batch' = [batch EXCEPT !.files_to_process = Tail(@)]
                   /\ UNCHANGED <<db, upload>>
              ELSE IF ~batch.DB_UPLOAD_AVAILABLE
              THEN /\ batch' = FlushAtThreshold(db, Collect(batch, skipped), sql_ok).locals
                   /\ db' = FlushAtThreshold(db, Collect(batch, skipped), sql_ok).server
                   /\ UNCHANGED upload
              ELSE LET after == FlushAtThreshold(ServerAfter(out, sql_ok),
                                                 Collect(batch, returned), sql_ok)
                   IN  /\ batch' = after.locals
                       /\ db' = after.server
                       /\ upload' = <<[selected_file |-> file_path, batch_mode |-> TRUE,
                                       db_conn |-> batch.db_conn, out |-> out]>>
    /\ UNCHANGED pc
    /\ UNCHANGED analysis_vars
    /\ UNCHANGED <<output_folder, scan>>

\* after the loop: the remaining pending data, then the connection is closed
FinishBatch ==
    /\ pc = "loop"
    /\ batch.files_to_process = <<>>
    /\ \E sql_ok \in BOOLEAN :
          LET after == IF batch.db_conn # NoConnection
                          /\ (batch.pending_inserts # <<>> \/ batch.pending_updates # <<>>)
                       THEN flush_pending_data(db, batch, sql_ok)
                       ELSE [server |-> db, locals |-> batch]
          IN  /\ batch' = after.locals
              /\ db' = IF batch.db_conn # NoConnection
                       THEN [after.server EXCEPT !.closed = @ \cup {batch.db_conn}]
                       ELSE after.server
    /\ pc' = "done"
    /\ UNCHANGED analysis_vars
    /\ UNCHANGED <<upload, output_folder, scan>>

NextBatchUpload == ConnectDatabase \/ ProcessBook \/ FinishBatch

SpecBatchUpload == InitBatchUpload /\ [][NextBatchUpload]_vars

---------------------------------------------------------------------------
(* Staging of inserts and updates *)

\* the results of the run whose prepared data was staged as an insert or update
Staged(i) ==
    /\ batch.summary_results[i].upload_success
    /\ batch.summary_results[i].db_prepared_data # <<>>

StagedKey(i) ==
    BookKey(batch.summary_results[i].db_prepared_data[1].book_name,
            batch.summary_results[i].db_prepared_data[1].author)

\* C27: within one batch run at most one INSERT is staged per
\* (book_name, author) key: a later file resolving to a key already staged
\* is staged as an update.
C27_OneInsertPerKey ==
    batch # <<>> =>
        \A i, j \in 1..Len(batch.summary_results) :
            (i < j /\ Staged(i) /\ Staged(j) /\ StagedKey(i) = StagedKey(j)) =>
                batch.summary_results[j].db_is_update

---------------------------------------------------------------------------
(* Batched SQL *)

\* how often a record occurs in a list
Occurrences(list, record) == Cardinality({i \in 1..Len(list) : list[i] = record})

\* C28: in batch mode no SQL is executed while a document is processed; the
\* prepared record of every upload success is in exactly one pending list or
\* has been handed to batch_insert_books or batch_update_books, exactly once;
\* the lists are flushed when they together hold batch_threshold records; and
\* at the end of the batch both lists are empty.
C28_BatchedSql ==
    batch # <<>> =>
        /\ upload # <<>> => upload[1].out.sql = <<>>
        /\ \A i \in 1..Len(batch.summary_results) :
              Staged(i) =>
                  LET record == batch.summary_results[i].db_prepared_data[1]
                  IN  Occurrences(batch.pending_inserts, record)
                      + Occurrences(batch.pending_updates, record)
                      + Occurrences(db.inserted, record)
                      + Occurrences(db.updated, record) = 1
        /\ Len(batch.pending_inserts) + Len(batch.pending_updates) < batch_threshold
        /\ pc = "done" =>
              (batch.pending_inserts = <<>> /\ batch.pending_updates = <<>>)

---------------------------------------------------------------------------
(* The result folder and the choice of the files to scan *)

\* '{base name}_字频统计_难度{score}.txt', the score left out
ResultName(selected_file) == SplitExt(selected_file) \o <<"_zipin_nandu", ".txt">>

\* '【汇总报告】所有书籍难度对比.txt'
SummaryReport == <<"summary", ".txt">>

\* str.startswith
StartsWith(name, prefix) ==
    Len(prefix) <= Len(name) /\ SubSeq(name, 1, Len(prefix)) = prefix

check_result_exists(file_path, folder) ==
    LET base_name == SplitExt(file_path)
    IN  \E existing_file \in folder :
            StartsWith(existing_file, base_name) /\ "_zipin_nandu" \in Range(existing_file)

\* sorted(txt_files, key=lambda f: (check_result_exists(f), os.path.basename(f)))
SortedFiles(txt_files, folder) ==
    LET Fresh(f) == f \in txt_files /\ ~check_result_exists(f, folder)
        Done(f) == f \in txt_files /\ check_result_exists(f, folder)
    IN  SelectSeq(AllFiles, Fresh) \o SelectSeq(AllFiles, Done)

\* [f for f in txt_files_sorted if not check_result_exists(f)]
FilesToProcess(txt_files_sorted, folder) ==
    LET Fresh(f) == ~check_result_exists(f, folder)
    IN  SelectSeq(txt_files_sorted, Fresh)

\* what OUTPUT_FOLDER can hold when the books are listed
Folders ==
    SUBSET {ResultName(<<"shu", ".txt">>), ResultName(<<"shu", "meng", ".txt">>),
            ResultName(<<"1", "_", "shu", ".txt">>), SummaryReport}

InitScan ==
    /\ pc = "choose"
    /\ NoAnalysis
    /\ db = <<>>
    /\ batch = <<>>
    /\ upload = <<>>
    /\ output_folder \in Folders
    /\ \E txt_files \in {t \in SUBSET Filenames : 1 <= Cardinality(t)
                                                 /\ Cardinality(t) <= MaxFiles} :
          scan = [txt_files_sorted |-> SortedFiles(txt_files, output_folder),
                  choice |-> "", files_to_process |-> <<>>, skipped_count |-> 0,
                  summary_results |-> 0]

\* 'all' typed: the files with a result are left out
ChooseAll ==
    /\ pc = "choose"
    /\ LET files_to_process == FilesToProcess(scan.txt_files_sorted, output_folder)
       IN  /\ scan' = [scan EXCEPT
                          !.choice = "all",
                          !.files_to_process = files_to_process,
                          !.skipped_count = Len(scan.txt_files_sorted)
                                            - Len(files_to_process)]
           /\ pc' = IF files_to_process = <<>> THEN "menu" ELSE "scanning"
    /\ UNCHANGED output_folder
    /\ UNCHANGED analysis_vars
    /\ UNCHANGED <<db, batch, upload>>

\* one pass of the batch loop: process_file writes the book's result file,
\* unless it returns early on a file without Chinese characters
ScanBook ==
    /\ pc = "scanning"
    /\ scan.files_to_process # <<>>
    /\ \E written \in BOOLEAN :
          /\ output_folder' = IF written
                              THEN output_folder
                                   \cup {ResultName(Head(scan.files_to_process))}
                              ELSE output_folder
          /\ scan' = [scan EXCEPT !.files_to_process = Tail(@),
                                  !.summary_results = IF written THEN @ + 1 ELSE @]
    /\ UNCHANGED pc
    /\ UNCHANGED analysis_vars
    /\ UNCHANGED <<db, batch, upload>>

\* after the loop: the summary report
FinishScan ==
    /\ pc = "scanning"
    /\ scan.files_to_process = <<>>
    /\ output_folder' = IF scan.summary_results > 0
                        THEN output_folder \cup {SummaryReport} ELSE output_folder
    /\ pc' = "menu"
    /\ UNCHANGED scan
    /\ UNCHANGED analysis_vars
    /\ UNCHANGED <<db, batch, upload>>

\* a number typed: that file is processed, with or without a result of its own
ChooseOne ==
    /\ pc = "choose"
    /\ \E choice_idx \in 1..Len(scan.txt_files_sorted), written \in BOOLEAN :
          /\ output_folder' = IF written
                              THEN output_folder
                                   \cup {ResultName(scan.txt_files_sorted[choice_idx])}
                              ELSE output_folder
          /\ scan' = [scan EXCEPT !.choice = "one"]
    /\ pc' = "menu"
    /\ UNCHANGED analysis_vars
    /\ UNCHANGED <<db, batch, upload>>

NextScan == ChooseAll \/ ScanBook \/ FinishScan \/ ChooseOne

SpecScan == InitScan /\ [][NextScan]_vars

---------------------------------------------------------------------------
(* Files with a result of their own *)

\* the folder holds '<base name of f>_字频统计_难度...'
OwnResult(file_path, folder) ==
    \E existing_file \in folder :
        StartsWith(existing_file, SplitExt(file_path) \o <<"_zipin_nandu">>)

\* C30: check_result_exists(f) is True only when the output folder holds a
\* result file of f itself, and the 'all' scan leaves out exactly the files
\* that have one, whatever results of other books the folder holds (stated
\* on the state the choice of 'all' leaves, before any book is processed).
C30_OwnResultOnly ==
    (scan # <<>> /\ scan.choice = "all"
       /\ Len(scan.files_to_process) + scan.skipped_count = Len(scan.txt_files_sorted)) =>
        \A i \in 1..Len(scan.txt_files_sorted) :
            LET f == scan.txt_files_sorted[i]
            IN  /\ check_result_exists(f, output_folder) => OwnResult(f, output_folder)
                /\ f \notin Range(scan.files_to_process) <=> OwnResult(f, output_folder)

=============================================================================
